---- MODULE Spec2Model ----
(***************************************************************************)
(* A model of the SIC Lang interpreter (interpreter.cpp): the literal      *)
(* parser, the data stack and the built-in words of the array engine.      *)
(*                                                                         *)
(* Text is a sequence of one-character strings.  A Number is kept as the   *)
(* exact rational n/d it denotes (d = 0 is an infinity); the arithmetic    *)
(* words are only applied to small integers, for which the double results  *)
(* are determined by these rationals.                                      *)
(***************************************************************************)
EXTENDS Integers, Sequences, FiniteSets, TLC

VARIABLES stack, functions, lastTok, prev, errs, out, aborted, nOps, nPush, toks,
          line, script, nLines, endless

vars == <<stack, functions, lastTok, prev, errs, out, aborted, nOps, nPush, toks,
          line, script, nLines, endless>>

(* ------------------------------ bounds --------------------------------- *)
MaxDepth == 3
MaxOps == 2
MaxNum == 8
MaxLines == 3

(* ---------------------------- value model ------------------------------ *)
\* Element = std::variant<wchar_t, double, String, Array>
Chr(c) == <<"chr", c>>
Num(n, d) == <<"num", n, d>>
Str(s) == <<"str", s>>
Arr(a) == <<"arr", a>>

IsChr(e) == e[1] = "chr"
IsNum(e) == e[1] = "num"
IsStr(e) == e[1] = "str"
IsArr(e) == e[1] = "arr"
\* std::get<Array>(e) of an element that holds an Array
GetArr(e) == e[2]

Abs(n) == IF n < 0 THEN -n ELSE n

RECURSIVE Gcd(_, _)
Gcd(a, b) == IF b = 0 THEN a ELSE Gcd(b, a % b)

\* the double n/d, as a Number in lowest terms with a positive denominator
Rat(n, d) ==
    IF d = 0 THEN Num(IF n < 0 THEN -1 ELSE 1, 0)
    ELSE LET g == Gcd(Abs(n), Abs(d))
             s == IF d < 0 THEN -1 ELSE 1
         IN  Num((s * n) \div g, (s * d) \div g)

NumInt(n) == Num(n, 1)

RECURSIVE IPow(_, _)
IPow(x, k) == IF k = 0 THEN 1 ELSE x * IPow(x, k - 1)

(* ---------------------------- characters ------------------------------- *)
DigitChars == <<"0", "1", "2", "3", "4", "5", "6", "7", "8", "9">>
IsDigit(c) == \E i \in 1..10 : DigitChars[i] = c
DigitVal(c) == (CHOOSE i \in 1..10 : DigitChars[i] = c) - 1
\* the characters find_first_not_of(L" \t") skips
IsBlank(c) == c \in {" ", "\t"}
\* std::iswspace
iswspace(c) == c \in {" ", "\t", "\n"}

(* --------------------------- literal parser ---------------------------- *)
\* std::stod: skips leading white space, takes an optional sign and the
\* longest decimal prefix  digits [. digits] ; fails when that prefix holds
\* no digit.  (The model's alphabet has no exponent, hex, inf or nan letters.)
RECURSIVE SkipSpace(_, _)
SkipSpace(t, i) ==
    IF i <= Len(t) /\ iswspace(t[i]) THEN SkipSpace(t, i + 1) ELSE i

RECURSIVE DigitsEnd(_, _)
DigitsEnd(t, i) ==
    IF i <= Len(t) /\ IsDigit(t[i]) THEN DigitsEnd(t, i + 1) ELSE i

RECURSIVE DigitsValue(_, _, _, _)
DigitsValue(t, i, j, acc) ==
    IF i >= j THEN acc ELSE DigitsValue(t, i + 1, j, 10 * acc + DigitVal(t[i]))

stod(t) ==
    LET s0 == SkipSpace(t, 1)
        neg == s0 <= Len(t) /\ t[s0] = "-"
        s1 == IF s0 <= Len(t) /\ t[s0] \in {"-", "+"} THEN s0 + 1 ELSE s0
        e1 == DigitsEnd(t, s1)
        hasDot == e1 <= Len(t) /\ t[e1] = "."
        e2 == IF hasDot THEN DigitsEnd(t, e1 + 1) ELSE e1
        nInt == e1 - s1
        nFrac == IF hasDot THEN e2 - (e1 + 1) ELSE 0
        ip == DigitsValue(t, s1, e1, 0)
        fp == IF hasDot THEN DigitsValue(t, e1 + 1, e2, 0) ELSE 0
        scale == IPow(10, nFrac)
        mag == ip * scale + fp
    IN  IF nInt + nFrac = 0
        THEN [ok |-> FALSE, val |-> NumInt(0)]
        ELSE [ok |-> TRUE, val |-> Rat(IF neg THEN -mag ELSE mag, scale)]

isNumber(token) == stod(token).ok

isWChar(token) == Len(token) = 1 /\ ~isNumber(token)

isStringLiteral(token) ==
    Len(token) >= 2 /\ token[1] = "\"" /\ token[Len(token)] = "\""

isArrayLiteral(token) ==
    Len(token) >= 2 /\ token[1] = "[" /\ token[Len(token)] = "]"

\* current.erase(0, find_first_not_of(" \t")); current.erase(find_last_not_of(" \t") + 1)
RECURSIVE TrimLeft(_)
TrimLeft(s) == IF Len(s) > 0 /\ IsBlank(s[1]) THEN TrimLeft(Tail(s)) ELSE s

RECURSIVE TrimRight(_)
TrimRight(s) ==
    IF Len(s) > 0 /\ IsBlank(s[Len(s)])
    THEN TrimRight(SubSeq(s, 1, Len(s) - 1)) ELSE s

Trim(s) == TrimRight(TrimLeft(s))

\* every piece kept, the empty ones too
FlushPieceKeepEmpty(tokens, current) == Append(tokens, Trim(current))

\* tokens.push_back(current) unless the trimmed piece is empty
FlushPiece(tokens, current) ==
    IF Trim(current) = <<>> THEN tokens ELSE Append(tokens, Trim(current))

\* the loop of parseArrayTokens over input[1 .. length-2] (0-based), here the
\* positions i = 2 .. Len(input)-1
RECURSIVE parseArrayTokensLoop(_, _, _, _, _, _)
parseArrayTokensLoop(input, i, tokens, current, bracketDepth, inQuotes) ==
    IF i > Len(input) - 1
    THEN FlushPiece(tokens, current)
    ELSE LET c == input[i] IN
         IF c = "\"" /\ input[i - 1] # "\\"
         THEN parseArrayTokensLoop(input, i + 1, tokens, Append(current, c),
                                   bracketDepth, ~inQuotes)
         ELSE IF inQuotes
         THEN parseArrayTokensLoop(input, i + 1, tokens, Append(current, c),
                                   bracketDepth, inQuotes)
         ELSE IF c = "["
         THEN parseArrayTokensLoop(input, i + 1, tokens, Append(current, c),
                                   bracketDepth + 1, inQuotes)
         ELSE IF c = "]"
         THEN parseArrayTokensLoop(input, i + 1, tokens, Append(current, c),
                                   bracketDepth - 1, inQuotes)
         ELSE IF c = "," /\ bracketDepth = 0
         THEN parseArrayTokensLoop(input, i + 1, FlushPiece(tokens, current),
                                   <<>>, bracketDepth, inQuotes)
         ELSE parseArrayTokensLoop(input, i + 1, tokens, Append(current, c),
                                   bracketDepth, inQuotes)

parseArrayTokens(input) == parseArrayTokensLoop(input, 2, <<>>, <<>>, 0, FALSE)

RECURSIVE parseElement(_)
RECURSIVE parseArray(_)
RECURSIVE parseElements(_, _)

parseElement(token) ==
    IF isNumber(token) THEN stod(token).val
    ELSE IF isStringLiteral(token) THEN Str(SubSeq(token, 2, Len(token) - 1))
    ELSE IF isWChar(token) THEN Chr(token[1])
    ELSE IF isArrayLiteral(token) THEN Arr(parseArray(token))
    ELSE Str(token)

\* for (elem : elements) result.push_back(parseElement(elem))
parseElements(elements, i) ==
    IF i > Len(elements) THEN <<>>
    ELSE <<parseElement(elements[i])>> \o parseElements(elements, i + 1)

parseArray(token) ==
    IF ~isArrayLiteral(token) THEN <<parseElement(token)>>
    ELSE parseElements(parseArrayTokens(token), 1)

(* ------------------------- built-in word names ------------------------- *)
\* the keys of builtIns (initBuiltIns), as tokens
wPlus == <<"+">>
wMinus == <<"-">>
wTimes == <<"*">>
wDivide == <<"/">>
wPower == <<"^">>
wCat == <<"c", "a", "t">>
wDot == <<".">>
wClear == <<"c", "l", "e", "a", "r">>
wSwap == <<"s", "w", "a", "p">>
wDup == <<"d", "u", "p">>
wRange == <<"r", "a", "n", "g", "e">>
wReshape == <<"r", "e", "s", "h", "a", "p", "e">>
wDim == <<"d", "i", "m">>
wMatmul == <<"m", "a", "t", "m", "u", "l">>

ArithOps == {wPlus, wMinus, wTimes, wDivide, wPower}

(* ---------------------------- array engine ----------------------------- *)
\* the outcome of one built-in call: the stack it leaves, the diagnostic
\* lines and the arrays it printed, whether an exception left the handler
\* (std::bad_variant_access, which nothing catches), and whether it read a
\* vector out of bounds
Res(s, e, o, thrown, ub) ==
    [s |-> s, errs |-> e, out |-> o, thrown |-> thrown, ub |-> ub]

RECURSIVE getShape(_)
getShape(arr) ==
    <<Len(arr)>> \o
    (IF Len(arr) > 0 /\ IsArr(arr[1])
     THEN LET firstSize == Len(GetArr(arr[1]))
              isUniform == \A i \in 2..Len(arr) :
                               IsArr(arr[i]) /\ Len(GetArr(arr[i])) = firstSize
          IN  IF isUniform THEN getShape(GetArr(arr[1])) ELSE <<>>
     ELSE <<>>)

\* comparing the ranks only
shapesEqualRank(shape1, shape2) == Len(shape1) = Len(shape2)

shapesEqual(shape1, shape2) == shape1 = shape2

\* the operands taken in the wrong order
OpFnFlipped(opName, x, y) ==
    CASE opName = wPlus -> Rat(y[2] + x[2], 1)
      [] opName = wMinus -> Rat(y[2] - x[2], 1)
      [] opName = wTimes -> Rat(y[2] * x[2], 1)
      [] opName = wDivide -> Rat(y[2], x[2])
      [] opName = wPower -> IF x[2] >= 0 THEN Rat(IPow(y[2], x[2]), 1)
                         ELSE Rat(1, IPow(y[2], -x[2]))

\* the std::function<double(double, double)> each arithmetic word passes
OpFn(opName, x, y) ==
    CASE opName = wPlus -> Rat(x[2] + y[2], 1)
      [] opName = wMinus -> Rat(x[2] - y[2], 1)
      [] opName = wTimes -> Rat(x[2] * y[2], 1)
      [] opName = wDivide -> Rat(x[2], y[2])
      [] opName = wPower -> IF y[2] >= 0 THEN Rat(IPow(x[2], y[2]), 1)
                         ELSE Rat(1, IPow(x[2], -y[2]))

OpRes(res, e, thrown, ub) == [res |-> res, errs |-> e, thrown |-> thrown, ub |-> ub]

RECURSIVE applyOpRecursive(_, _, _, _, _)
RECURSIVE LeafLoop(_, _, _, _, _, _, _, _)
RECURSIVE SubLoop(_, _, _, _, _, _, _, _)

\* shape.size() == 1: for (i < shape[0]) over the leaves; g is what a read
\* past the end of x or y yields
LeafLoop(opName, x, y, n, i, acc, g, ub) ==
    IF i > n THEN OpRes(acc, <<>>, FALSE, ub)
    ELSE LET xo == Len(x) # 1 /\ i > Len(x)
             yo == Len(y) # 1 /\ i > Len(y)
             xElem == IF Len(x) = 1 THEN x[1] ELSE IF xo THEN g ELSE x[i]
             yElem == IF Len(y) = 1 THEN y[1] ELSE IF yo THEN g ELSE y[i]
             u == ub \/ xo \/ yo
         IN  IF ~IsNum(xElem) \/ ~IsNum(yElem)
             THEN OpRes(<<>>, <<"requires numeric arguments">>, FALSE, u)
             ELSE IF opName = wDivide /\ yElem[2] = 0 /\ yElem[3] # 0
             THEN OpRes(<<>>, <<"Division by zero">>, FALSE, u)
             ELSE LeafLoop(opName, x, y, n, i + 1,
                           Append(acc, OpFn(opName, xElem, yElem)), g, u)

\* shape.size() > 1: for (i < shape[0]) over the sub-arrays
SubLoop(opName, x, y, shape, i, acc, g, ub) ==
    IF i > shape[1] THEN OpRes(acc, <<>>, FALSE, ub)
    ELSE LET xFirst == Len(x) = 1 /\ IsArr(x[1])
             yFirst == Len(y) = 1 /\ IsArr(y[1])
             xo == ~xFirst /\ i > Len(x)
             yo == ~yFirst /\ i > Len(y)
             xe == IF xFirst THEN x[1] ELSE IF xo THEN g ELSE x[i]
             ye == IF yFirst THEN y[1] ELSE IF yo THEN g ELSE y[i]
         IN  IF ~IsArr(xe) THEN OpRes(<<>>, <<>>, TRUE, ub \/ xo)
             ELSE IF ~IsArr(ye) THEN OpRes(<<>>, <<>>, TRUE, ub \/ xo \/ yo)
             ELSE LET subRes == applyOpRecursive(opName, GetArr(xe), GetArr(ye),
                                                 Tail(shape), g)
                      u == ub \/ xo \/ yo \/ subRes.ub
                  IN  IF subRes.thrown THEN OpRes(<<>>, subRes.errs, TRUE, u)
                      ELSE IF subRes.res = <<>>
                      THEN OpRes(<<>>, subRes.errs, FALSE, u)
                      ELSE SubLoop(opName, x, y, shape, i + 1,
                                   Append(acc, Arr(subRes.res)), g, u)

applyOpRecursive(opName, x, y, shape, g) ==
    IF Len(shape) = 1
    THEN LeafLoop(opName, x, y, shape[1], 1, <<>>, g, FALSE)
    ELSE SubLoop(opName, x, y, shape, 1, <<>>, g, FALSE)

\* aIsScalar / bIsScalar of applyBinaryOp
IsScalarOperand(a) == Len(a) = 1 /\ ~IsArr(a[1]) /\ IsNum(a[1])

Top(s) == s[Len(s)]
Second(s) == s[Len(s) - 1]
Pop(s, k) == SubSeq(s, 1, Len(s) - k)

applyBinaryOp(s, opName, g) ==
    IF Len(s) < 2
    THEN Res(s, <<"Insufficient stack elements">>, <<>>, FALSE, FALSE)
    ELSE LET b == Top(s)
             a == Second(s)
             rest == Pop(s, 2)
             aIsScalar == IsScalarOperand(a)
             bIsScalar == IsScalarOperand(b)
             shapeA == getShape(a)
             shapeB == getShape(b)
         IN  IF (aIsScalar /\ ~bIsScalar) \/ (bIsScalar /\ ~aIsScalar)
                \/ shapesEqual(shapeA, shapeB)
             THEN LET r == applyOpRecursive(opName, a, b,
                               IF aIsScalar /\ ~bIsScalar THEN shapeB ELSE shapeA, g)
                  IN  IF r.thrown THEN Res(rest, r.errs, <<>>, TRUE, r.ub)
                      ELSE IF r.res = <<>> THEN Res(rest, r.errs, <<>>, FALSE, r.ub)
                      ELSE Res(Append(rest, r.res), r.errs, <<>>, FALSE, r.ub)
             ELSE Res(rest, <<"requires a scalar or arrays of equal shape">>,
                      <<>>, FALSE, FALSE)

(* --------------------------- other built-ins --------------------------- *)
NoErr(s) == Res(s, <<>>, <<>>, FALSE, FALSE)
Err(s, msg) == Res(s, <<msg>>, <<>>, FALSE, FALSE)

\* the top array first
catReversed(s) ==
    IF Len(s) < 2 THEN Err(s, "Insufficient stack elements")
    ELSE NoErr(Append(Pop(s, 2), Top(s) \o Second(s)))

cat(s) ==
    IF Len(s) < 2 THEN Err(s, "Insufficient stack elements")
    ELSE NoErr(Append(Pop(s, 2), Second(s) \o Top(s)))

\* "." pops the top array and prints it
dot(s) ==
    IF Len(s) = 0 THEN Err(s, "Stack empty")
    ELSE Res(Pop(s, 1), <<>>, <<Top(s)>>, FALSE, FALSE)

clear(s) == NoErr(<<>>)

\* popping the top before looking for the second item
swapPopFirst(s) ==
    IF Len(s) < 2 THEN Err(<<>>, "Insufficient stack elements")
    ELSE NoErr(Pop(s, 2) \o <<Top(s), Second(s)>>)

\* the second item lost: the top pushed twice
swapDupTop(s) ==
    IF Len(s) < 2 THEN Err(s, "Insufficient stack elements")
    ELSE NoErr(Pop(s, 2) \o <<Top(s), Top(s)>>)

swap(s) ==
    IF Len(s) < 2 THEN Err(s, "Insufficient stack elements")
    ELSE NoErr(Pop(s, 2) \o <<Top(s), Second(s)>>)

dup(s) ==
    IF Len(s) = 0 THEN Err(s, "Stack empty")
    ELSE NoErr(Append(s, Top(s)))

\* val is a whole number: std::floor(val) == val
IsWhole(e) == e[3] = 1 \/ e[3] = 0

\* counting from 1
rangeFromOne(s) ==
    IF Len(s) = 0 THEN Err(s, "Stack empty")
    ELSE LET top == Top(s)
             rest == Pop(s, 1)
         IN  IF Len(top) # 1 \/ ~IsNum(top[1])
             THEN Err(rest, "range requires a scalar numeric argument")
             ELSE IF top[1][2] < 0 \/ ~IsWhole(top[1])
             THEN Err(rest, "range requires a non-negative integer")
             ELSE NoErr(Append(rest, [i \in 1..top[1][2] |-> NumInt(i)]))

\* the argument popped only once it has been accepted
rangeKeepArgument(s) ==
    IF Len(s) = 0 THEN Err(s, "Stack empty")
    ELSE LET top == Top(s)
             rest == Pop(s, 1)
         IN  IF Len(top) # 1 \/ ~IsNum(top[1])
             THEN Err(s, "range requires a scalar numeric argument")
             ELSE IF top[1][2] < 0 \/ ~IsWhole(top[1])
             THEN Err(s, "range requires a non-negative integer")
             ELSE NoErr(Append(rest, [i \in 1..top[1][2] |-> NumInt(i - 1)]))

range(s) ==
    IF Len(s) = 0 THEN Err(s, "Stack empty")
    ELSE LET top == Top(s)
             rest == Pop(s, 1)
         IN  IF Len(top) # 1 \/ ~IsNum(top[1])
             THEN Err(rest, "range requires a scalar numeric argument")
             ELSE IF top[1][2] < 0 \/ ~IsWhole(top[1])
             THEN Err(rest, "range requires a non-negative integer")
             ELSE NoErr(Append(rest, [i \in 1..top[1][2] |-> NumInt(i - 1)]))

\* the loop of reshape over the shape array: the first offending element
\* decides the error; otherwise dims and their product
RECURSIVE reshapeDims(_, _, _, _)
reshapeDims(shape, i, dims, total) ==
    IF i > Len(shape) THEN [err |-> "", dims |-> dims, total |-> total]
    ELSE IF ~IsNum(shape[i])
    THEN [err |-> "reshape shape must contain numeric values",
          dims |-> dims, total |-> total]
    ELSE IF shape[i][2] <= 0 \/ ~IsWhole(shape[i])
    THEN [err |-> "reshape dimensions must be positive integers",
          dims |-> dims, total |-> total]
    ELSE reshapeDims(shape, i + 1, Append(dims, shape[i][2]), total * shape[i][2])

\* buildArray(dimIdx, dims, dataIdx): the array built and the advanced
\* dataIdx (0-based, as in the code)
RECURSIVE buildArray(_, _, _, _)
RECURSIVE buildLoop(_, _, _, _, _, _)

buildLoop(data, dimIdx, dims, dataIdx, i, result) ==
    IF i > dims[dimIdx] THEN [arr |-> result, idx |-> dataIdx]
    ELSE IF dimIdx = Len(dims)
    THEN IF dataIdx < Len(data)
         THEN buildLoop(data, dimIdx, dims, dataIdx + 1, i + 1,
                        Append(result, data[dataIdx + 1]))
         ELSE buildLoop(data, dimIdx, dims, dataIdx, i + 1, result)
    ELSE LET sub == buildArray(data, dimIdx + 1, dims, dataIdx)
         IN  buildLoop(data, dimIdx, dims, sub.idx, i + 1,
                       Append(result, Arr(sub.arr)))

\* dataIdx passed by value instead of by reference
buildArrayByValue(data, dimIdx, dims, dataIdx) ==
    [arr |-> buildLoop(data, dimIdx, dims, dataIdx, 1, <<>>).arr, idx |-> dataIdx]

buildArray(data, dimIdx, dims, dataIdx) ==
    buildLoop(data, dimIdx, dims, dataIdx, 1, <<>>)

\* data longer than the shape asks for cut to fit
reshapeTruncating(s) ==
    IF Len(s) < 2 THEN Err(s, "Insufficient stack elements")
    ELSE LET shape == Top(s)
             data == Second(s)
             rest == Pop(s, 2)
             d == reshapeDims(shape, 1, <<>>, 1)
         IN  IF shape = <<>>
             THEN Err(rest, "reshape requires a non-empty shape array")
             ELSE IF d.err # "" THEN Err(rest, d.err)
             ELSE IF Len(data) < d.total
             THEN Err(rest, "Data size does not match shape dimensions")
             ELSE NoErr(Append(rest, buildArray(data, 1, d.dims, 0).arr))

reshape(s) ==
    IF Len(s) < 2 THEN Err(s, "Insufficient stack elements")
    ELSE LET shape == Top(s)
             data == Second(s)
             rest == Pop(s, 2)
             d == reshapeDims(shape, 1, <<>>, 1)
         IN  IF shape = <<>>
             THEN Err(rest, "reshape requires a non-empty shape array")
             ELSE IF d.err # "" THEN Err(rest, d.err)
             ELSE IF Len(data) # d.total
             THEN Err(rest, "Data size does not match shape dimensions")
             ELSE NoErr(Append(rest, buildArray(data, 1, d.dims, 0).arr))

\* the size of the outermost level only
getDimsOuterOnly(current) == [dims |-> <<Len(current)>>, bad |-> FALSE]

\* getDims of dim: the sizes collected and whether the non-uniform branch
\* (which prints and pushes the still empty result) was taken
RECURSIVE getDims(_)
getDims(current) ==
    IF current = <<>> THEN [dims |-> <<0>>, bad |-> FALSE]
    ELSE IF ~IsArr(current[1]) THEN [dims |-> <<Len(current)>>, bad |-> FALSE]
    ELSE LET subSize == Len(GetArr(current[1]))
             bad == \E i \in 2..Len(current) :
                        ~IsArr(current[i]) \/ Len(GetArr(current[i])) # subSize
         IN  IF bad THEN [dims |-> <<Len(current)>>, bad |-> TRUE]
             ELSE LET sub == getDims(GetArr(current[1]))
                  IN  [dims |-> <<Len(current)>> \o sub.dims, bad |-> sub.bad]

DimsArray(dims) == [i \in 1..Len(dims) |-> NumInt(dims[i])]

dim(s) ==
    IF Len(s) = 0 THEN Err(s, "Stack empty")
    ELSE LET arr == Top(s)
             rest == Pop(s, 1)
             d == getDims(arr)
         IN  IF Len(arr) = 1 /\ ~IsArr(arr[1]) THEN NoErr(Append(rest, <<>>))
             ELSE IF d.bad
             THEN Err(rest \o <<(<<>>), DimsArray(d.dims)>>,
                      "Non-uniform array for dim")
             ELSE NoErr(Append(rest, DimsArray(d.dims)))

\* the two checking loops of matmul over the rows of one operand: the first
\* offending row or element decides the message
RECURSIVE matmulRows(_, _)
matmulRows(m, i) ==
    IF i > Len(m) THEN ""
    ELSE IF ~IsArr(m[i]) THEN "matmul requires 2D numeric arrays"
    ELSE IF \E k \in 1..Len(GetArr(m[i])) : ~IsNum(GetArr(m[i])[k])
    THEN "matmul requires numeric elements"
    ELSE matmulRows(m, i + 1)

\* the last term alone, nothing accumulated
DotSumLastTerm(a, b, i, j, k) ==
    IF k = 0 THEN 0 ELSE GetArr(a[i])[k][2] * GetArr(b[k])[j][2]

\* b read by rows instead of by columns
RECURSIVE DotSumTransposed(_, _, _, _, _)
DotSumTransposed(a, b, i, j, k) ==
    IF k = 0 THEN 0
    ELSE DotSumTransposed(a, b, i, j, k - 1) + GetArr(a[i])[k][2] * GetArr(b[j])[k][2]

RECURSIVE DotSum(_, _, _, _, _)
DotSum(a, b, i, j, k) ==
    IF k = 0 THEN 0
    ELSE DotSum(a, b, i, j, k - 1) + GetArr(a[i])[k][2] * GetArr(b[k])[j][2]

\* the operands left on the stack when the dimensions do not fit
matmulKeepOperands(s) ==
    IF Len(s) < 2 THEN Err(s, "Insufficient stack elements")
    ELSE LET b == Top(s)
             a == Second(s)
             rest == Pop(s, 2)
             shapeA == getShape(a)
             shapeB == getShape(b)
         IN  IF Len(shapeA) # 2 \/ Len(shapeB) # 2
             THEN Err(rest, "matmul requires 2D arrays")
             ELSE IF shapeA[2] # shapeB[1]
             THEN Err(s, "Incompatible dimensions for matmul")
             ELSE IF matmulRows(a, 1) # "" THEN Err(rest, matmulRows(a, 1))
             ELSE IF matmulRows(b, 1) # "" THEN Err(rest, matmulRows(b, 1))
             ELSE NoErr(Append(rest,
                      [i \in 1..shapeA[1] |->
                          Arr([j \in 1..shapeB[2] |->
                                  NumInt(DotSum(a, b, i, j, shapeA[2]))])]))

matmul(s) ==
    IF Len(s) < 2 THEN Err(s, "Insufficient stack elements")
    ELSE LET b == Top(s)
             a == Second(s)
             rest == Pop(s, 2)
             shapeA == getShape(a)
             shapeB == getShape(b)
         IN  IF Len(shapeA) # 2 \/ Len(shapeB) # 2
             THEN Err(rest, "matmul requires 2D arrays")
             ELSE IF shapeA[2] # shapeB[1]
             THEN Err(rest, "Incompatible dimensions for matmul")
             ELSE IF matmulRows(a, 1) # "" THEN Err(rest, matmulRows(a, 1))
             ELSE IF matmulRows(b, 1) # "" THEN Err(rest, matmulRows(b, 1))
             ELSE NoErr(Append(rest,
                      [i \in 1..shapeA[1] |->
                          Arr([j \in 1..shapeB[2] |->
                                  NumInt(DotSum(a, b, i, j, shapeA[2]))])]))

\* builtIns[token](stack)
builtIn(name, s, g) ==
    CASE name \in ArithOps -> applyBinaryOp(s, name, g)
      [] name = wCat -> cat(s)
      [] name = wDot -> dot(s)
      [] name = wClear -> clear(s)
      [] name = wSwap -> swap(s)
      [] name = wDup -> dup(s)
      [] name = wRange -> range(s)
      [] name = wReshape -> reshape(s)
      [] name = wDim -> dim(s)
      [] name = wMatmul -> matmul(s)

(* ------------------------------ inputs --------------------------------- *)
\* The vocabulary of a run: the literal tokens it may push and the built-in
\* words it may call.
\* number literals with + - *
AddTokens ==
    {<<"5">>,  \* 5
     <<"3">>,  \* 3
     <<"0">>,  \* 0
     <<"1">>,  \* 1
     <<"-", "2">>,  \* -2
     wPlus, wMinus, wTimes}

\* number literals with / ^
DivTokens ==
    {<<"5">>,  \* 5
     <<"3">>,  \* 3
     <<"0">>,  \* 0
     <<"1">>,  \* 1
     <<"-", "2">>,  \* -2
     wDivide, wPower}

\* a scalar against arrays of rank 1, 2 and 3
BroadcastTokens ==
    {<<"2">>,  \* 2
     <<"0">>,  \* 0
     <<"[", "1", ",", "2", ",", "3", "]">>,  \* [1,2,3]
     <<"[", "[", "1", ",", "2", "]", ",", "[", "3", ",", "4", "]", "]">>,  \* [[1,2],[3,4]]
     <<"[", "[", "[", "1", ",", "2", "]", "]", ",", "[", "[", "3", ",", "0", "]", "]", "]">>,  \* [[[1,2]],[[3,0]]]
     wPlus, wMinus, wDivide}

\* arrays of equal and of different shapes
ShapeTokens ==
    {<<"[", "1", ",", "2", "]">>,  \* [1,2]
     <<"[", "3", ",", "0", "]">>,  \* [3,0]
     <<"[", "1", ",", "2", ",", "3", "]">>,  \* [1,2,3]
     <<"[", "[", "1", ",", "2", "]", ",", "[", "3", ",", "4", "]", "]">>,  \* [[1,2],[3,4]]
     <<"[", "[", "1", "]", ",", "[", "2", "]", "]">>,  \* [[1],[2]]
     wMinus, wTimes, wDivide}

\* empty arrays and text among the operands
EmptyTokens ==
    {<<"[", "]">>,  \* []
     <<"[", "[", "]", ",", "[", "]", "]">>,  \* [[],[]]
     <<"[", "1", ",", "2", "]">>,  \* [1,2]
     <<"[", "\"", "s", "\"", ",", "1", "]">>,  \* ["s",1]
     <<"4">>,  \* 4
     wPlus, wPower, wDivide}

\* data and shape lists for reshape and dim
ReshapeTokens ==
    {<<"[", "1", ",", "2", ",", "3", ",", "4", "]">>,  \* [1,2,3,4]
     <<"[", "2", ",", "2", "]">>,  \* [2,2]
     <<"[", "4", "]">>,  \* [4]
     <<"[", "2", ",", "1", ",", "2", "]">>,  \* [2,1,2]
     <<"[", "\"", "s", "\"", ",", "x", ",", "[", "1", "]", ",", "2", ".", "5", "]">>,  \* ["s",x,[1],2.5]
     wReshape, wDim}

\* shape lists reshape rejects
ShapeArgTokens ==
    {<<"[", "1", ",", "2", ",", "3", ",", "4", "]">>,  \* [1,2,3,4]
     <<"[", "]">>,  \* []
     <<"[", "2", ",", "0", "]">>,  \* [2,0]
     <<"[", "2", ",", "\"", "s", "\"", "]">>,  \* [2,"s"]
     <<"[", "1", ".", "5", ",", "2", "]">>,  \* [1.5,2]
     <<"[", "3", ",", "2", "]">>,  \* [3,2]
     <<"[", "-", "2", ",", "-", "2", "]">>,  \* [-2,-2]
     wReshape, wCat}

\* the literals of the README, written with spaces
ReadmeTokens ==
    {<<"[", "2", "]">>,  \* [2]
     <<"[", "1", " ", "2", " ", "3", "]">>,  \* [1 2 3]
     <<"[", "1", " ", "2", " ", "3", " ", "4", "]">>,  \* [1 2 3 4]
     <<"[", "2", " ", "2", "]">>,  \* [2 2]
     wTimes, wReshape}

ReadmeMatrixTokens ==
    {<<"[", "[", "1", " ", "2", "]", " ", "[", "3", " ", "4", "]", "]">>,  \* [[1 2] [3 4]]
     <<"[", "[", "5", " ", "6", "]", " ", "[", "7", " ", "8", "]", "]">>,  \* [[5 6] [7 8]]
     wMatmul, wDim}

\* text, characters and the stack words
StackTokens ==
    {<<"\"", "s", "\"">>,  \* "s"
     <<"x">>,  \* x
     <<"7">>,  \* 7
     <<"[", "1", ",", "2", "]">>,  \* [1,2]
     wCat, wDot, wSwap, wDup}

\* ragged arrays
RaggedTokens ==
    {<<"2">>,  \* 2
     <<"[", "[", "[", "1", ",", "2", ",", "3", "]", "]", ",", "[", "[", "4", ",", "5", "]", "]", "]">>,  \* [[[1,2,3]],[[4,5]]]
     <<"[", "[", "1", ",", "2", "]", ",", "[", "3", "]", "]">>,  \* [[1,2],[3]]
     <<"[", "[", "1", ",", "2", "]", ",", "3", "]">>,  \* [[1,2],3]
     <<"[", "[", "[", "1", "]", ",", "[", "2", "]", "]", ",", "[", "3", ",", "4", "]", "]">>,  \* [[[1],[2]],[3,4]]
     wPlus, wDim, wClear}

\* matrices
MatmulTokens ==
    {<<"[", "[", "1", ",", "2", "]", ",", "[", "3", ",", "4", "]", "]">>,  \* [[1,2],[3,4]]
     <<"[", "[", "5", ",", "6", "]", ",", "[", "7", ",", "8", "]", "]">>,  \* [[5,6],[7,8]]
     <<"[", "[", "1", ",", "2", ",", "3", "]", "]">>,  \* [[1,2,3]]
     <<"[", "[", "\"", "s", "\"", ",", "1", "]", ",", "[", "2", ",", "3", "]", "]">>,  \* [["s",1],[2,3]]
     <<"[", "1", ",", "2", "]">>,  \* [1,2]
     wMatmul, wDim}

\* arguments of range
RangeTokens ==
    {<<"0">>,  \* 0
     <<"3">>,  \* 3
     <<"-", "1">>,  \* -1
     <<"2", ".", "5">>,  \* 2.5
     <<"[", "1", ",", "2", "]">>,  \* [1,2]
     <<"\"", "s", "\"">>,  \* "s"
     wRange, wDup}

\* nesting that differs between siblings away from the first child
NestingTokens ==
    {<<"[", "[", "1", ",", "2", "]", ",", "[", "3", ",", "[", "4", "]", "]", "]">>,  \* [[1,2],[3,[4]]]
     <<"[", "1", ",", "[", "2", "]", "]">>,  \* [1,[2]]
     <<"[", "[", "]", ",", "[", "]", "]">>,  \* [[],[]]
     wDim, wCat}

\* matrices that are not square
RectMatmulTokens ==
    {<<"[", "[", "1", ",", "2", ",", "3", "]", "]">>,  \* [[1,2,3]]
     <<"[", "[", "1", "]", ",", "[", "2", "]", ",", "[", "3", "]", "]">>,  \* [[1],[2],[3]]
     <<"[", "[", "1", ",", "0", "]", ",", "[", "0", ",", "1", "]", ",", "[", "2", ",", "2", "]", "]">>,  \* [[1,0],[0,1],[2,2]]
     wMatmul, wSwap}

\* tokens of each kind of literal, and tokens that begin like a number
ClassTokens ==
    {<<"5", "x">>,  \* 5x
     <<"5">>,  \* 5
     <<"\"", "5", "\"">>,  \* "5"
     <<"x">>,  \* x
     <<"a", "b", "c">>,  \* abc
     <<"-", "2", ".", "5">>,  \* -2.5
     <<"[", "1", " ", "2", " ", "3", "]">>}  \* [1 2 3]

\* array literals with nested, quoted, blank and empty pieces
ArrayTokens ==
    {<<"[", "1", ",", " ", "[", "2", ",", " ", "3", "]", ",", " ", "\"", "a", ",", "b", "\"", "]">>,  \* [1, [2, 3], "a,b"]
     <<"[", "1", ",", ",", "2", "]">>,  \* [1,,2]
     <<"[", "]">>,  \* []
     <<"[", " ", "7", " ", ",", "x", ",", " ", "]">>,  \* [ 7 ,x, ]
     <<"[", "[", "1", ",", "[", "2", ",", "3", "]", "]", ",", "\"", "]", ",", "[", "\"", "]">>,  \* [[1,[2,3]],"],["]
     wCat}

\* operands matmul rejects: of rank 1 and 3, with rows of no or unfit elements
MatmulErrTokens ==
    {<<"[", "[", "[", "1", "]", "]", ",", "[", "[", "2", "]", "]", "]">>,  \* [[[1]],[[2]]]
     <<"[", "[", "]", ",", "[", "]", "]">>,  \* [[],[]]
     <<"[", "[", "1", ",", "2", "]", ",", "[", "[", "3", "]", ",", "4", "]", "]">>,  \* [[1,2],[[3],4]]
     <<"[", "[", "1", ",", "2", "]", "]">>,  \* [[1,2]]
     <<"[", "[", "3", "]", ",", "[", "x", "]", "]">>,  \* [[3],[x]]
     <<"7">>,  \* 7
     wMatmul}

Vocabularies ==
    {AddTokens, DivTokens, BroadcastTokens, ShapeTokens,
     EmptyTokens, ReshapeTokens, ShapeArgTokens, ReadmeTokens,
     ReadmeMatrixTokens, StackTokens, RaggedTokens, MatmulTokens, RangeTokens,
     NestingTokens, RectMatmulTokens, ClassTokens,
     ArrayTokens, MatmulErrTokens}

BuiltInNames ==
    ArithOps \cup {wCat, wDot, wClear, wSwap, wDup, wRange, wReshape, wDim, wMatmul}

\* what a read past the end of a vector may yield
Garbage == {NumInt(0), Chr("?")}

\* every Number inside arr is an integer of magnitude at most MaxNum
RECURSIVE NumsSmall(_)
NumsSmall(arr) ==
    \A i \in 1..Len(arr) :
        CASE IsNum(arr[i]) -> arr[i][3] = 1 /\ Abs(arr[i][2]) <= MaxNum
          [] IsArr(arr[i]) -> NumsSmall(GetArr(arr[i]))
          [] OTHER -> TRUE

\* every Number at the top level of arr is finite, of numerator at most MaxNum
NumsFinite(arr) ==
    \A i \in 1..Len(arr) :
        IsNum(arr[i]) => arr[i][3] # 0 /\ Abs(arr[i][2]) <= MaxNum

\* the calls the model explores: arithmetic on small integers, and range
\* and reshape with small finite arguments
Bounded(name, s) ==
    IF name \in ArithOps \cup {wMatmul}
    THEN \A k \in 1..Len(s) : k >= Len(s) - 1 => NumsSmall(s[k])
    ELSE IF name \in {wRange, wReshape}
    THEN Len(s) > 0 => NumsFinite(Top(s))
    ELSE TRUE

(* --------------------------- the interpreter --------------------------- *)
EmptyDict == [t \in {} |-> <<>>]

Init ==
    /\ stack = <<>>
    /\ functions = EmptyDict
    /\ lastTok = <<>>
    /\ prev = <<>>
    /\ errs = <<>>
    /\ out = <<>>
    /\ aborted = FALSE
    /\ nOps = 0
    /\ nPush = 0
    /\ toks \in Vocabularies
    /\ line = <<>>
    /\ script = {}
    /\ nLines = 0
    /\ endless = FALSE

\* evaluate, last case: stack.push(parseArray(token))
Push(tok) ==
    /\ ~aborted
    /\ nPush < MaxDepth
    /\ nPush' = nPush + 1
    /\ stack' = Append(stack, parseArray(tok))
    /\ lastTok' = tok
    /\ prev' = stack
    /\ errs' = <<>>
    /\ out' = <<>>
    /\ UNCHANGED <<functions, aborted, nOps, toks, line, script, nLines, endless>>

PushLiteral == \E tok \in toks \ BuiltInNames : Push(tok)

Finish(name, r) ==
    /\ stack' = r.s
    /\ lastTok' = name
    /\ prev' = stack
    /\ errs' = r.errs
    /\ out' = r.out
    /\ aborted' = r.thrown
    /\ nOps' = nOps + 1
    /\ UNCHANGED <<functions, nPush, toks, line, script, nLines, endless>>

\* evaluate: builtIns[token](stack).  An exception leaving the handler ends
\* the process; after a read out of bounds the process may also just die.
Call(name) ==
    /\ ~aborted
    /\ name \in toks
    /\ nOps < MaxOps
    /\ Bounded(name, stack)
    /\ \E g \in Garbage :
          LET r == builtIn(name, stack, g)
          IN  \/ Finish(name, r)
              \/ r.ub /\ Finish(name, [r EXCEPT !.thrown = TRUE])

Plus == Call(wPlus)
Minus == Call(wMinus)
Times == Call(wTimes)
Divide == Call(wDivide)
Power == Call(wPower)
Cat == Call(wCat)
Dot == Call(wDot)
Clear == Call(wClear)
Swap == Call(wSwap)
Dup == Call(wDup)
Range == Call(wRange)
Reshape == Call(wReshape)
Dim == Call(wDim)
Matmul == Call(wMatmul)

Next ==
    \/ PushLiteral
    \/ Plus \/ Minus \/ Times \/ Divide \/ Power
    \/ Cat \/ Dot \/ Clear \/ Swap \/ Dup
    \/ Range \/ Reshape \/ Dim \/ Matmul

Spec == Init /\ [][Next]_vars

TypeOK ==
    /\ Len(stack) <= MaxDepth + MaxOps
    /\ nOps \in 0..MaxOps
    /\ aborted \in BOOLEAN

(* --------------------------- line evaluation --------------------------- *)
tDump == <<":", "d", "u", "m", "p">>
tEnd == <<":", "e", "n", "d">>

LetterChars ==
    {"a", "b", "c", "d", "e", "f", "g", "h", "i", "j", "k", "l", "m",
     "n", "o", "p", "q", "r", "s", "t", "u", "v", "w", "x", "y", "z",
     "A", "B", "C", "D", "E", "F", "G", "H", "I", "J", "K", "L", "M",
     "N", "O", "P", "Q", "R", "S", "T", "U", "V", "W", "X", "Y", "Z"}
\* std::iswalnum
iswalnum(c) == IsDigit(c) \/ c \in LetterChars
\* the characters above 127 the inputs use
NonAscii == {"é"}

isFunctionName(token) ==
    /\ token # <<>>
    /\ token # tEnd
    /\ token # tDump
    /\ \A k \in 1..Len(token) :
           iswalnum(token[k]) \/ token[k] = "_" \/ token[k] \in NonAscii

\* every blank outside quotes ends the token, inside brackets too
tokenizeStepFlat(text, i, st) ==
    LET c == text[i]
        more == [st EXCEPT !.current = Append(@, c)]
        flushed == [st EXCEPT !.tokens = IF st.current # <<>>
                                        THEN Append(@, st.current) ELSE @,
                              !.current = <<>>]
    IN  IF c = "\"" /\ (i = 1 \/ text[i - 1] # "\\")
        THEN [more EXCEPT !.inQuotes = ~st.inQuotes]
        ELSE IF st.inQuotes THEN more
        ELSE IF c = "[" THEN [more EXCEPT !.bracketDepth = @ + 1]
        ELSE IF c = "]"
        THEN IF st.bracketDepth - 1 = 0
             THEN [tokens |-> Append(st.tokens, more.current), current |-> <<>>,
                   inQuotes |-> st.inQuotes, bracketDepth |-> 0]
             ELSE [more EXCEPT !.bracketDepth = @ - 1]
        ELSE IF iswspace(c) THEN flushed
        ELSE more

\* the body of tokenize's loop for the character at i; st holds the locals
\* tokens, current, inQuotes and bracketDepth
tokenizeStep(text, i, st) ==
    LET c == text[i]
        more == [st EXCEPT !.current = Append(@, c)]
        flushed == [st EXCEPT !.tokens = IF st.current # <<>>
                                        THEN Append(@, st.current) ELSE @,
                              !.current = <<>>]
    IN  IF c = "\"" /\ (i = 1 \/ text[i - 1] # "\\")
        THEN [more EXCEPT !.inQuotes = ~st.inQuotes]
        ELSE IF st.inQuotes THEN more
        ELSE IF c = "[" THEN [more EXCEPT !.bracketDepth = @ + 1]
        ELSE IF c = "]"
        THEN IF st.bracketDepth - 1 = 0
             THEN [tokens |-> Append(st.tokens, more.current), current |-> <<>>,
                   inQuotes |-> st.inQuotes, bracketDepth |-> 0]
             ELSE [more EXCEPT !.bracketDepth = @ - 1]
        ELSE IF iswspace(c) /\ st.bracketDepth = 0 THEN flushed
        ELSE more

\* the loop over the characters lo..hi in order, taken in two halves; the
\* test on the first half has it evaluated before the second is entered
RECURSIVE tokenizeLoop(_, _, _, _)
tokenizeLoop(text, lo, hi, st) ==
    IF lo > hi THEN st
    ELSE IF lo = hi THEN tokenizeStep(text, lo, st)
    ELSE LET mid == (lo + hi) \div 2
             half == tokenizeLoop(text, lo, mid, st)
         IN  IF half.bracketDepth \in Int
             THEN tokenizeLoop(text, mid + 1, hi, half)
             ELSE half

\* what is pending at the end of the input dropped
tokenizeNoFlush(text) ==
    tokenizeLoop(text, 1, Len(text),
                 [tokens |-> <<>>, current |-> <<>>,
                  inQuotes |-> FALSE, bracketDepth |-> 0]).tokens

tokenize(text) ==
    LET st == tokenizeLoop(text, 1, Len(text),
                           [tokens |-> <<>>, current |-> <<>>,
                            inQuotes |-> FALSE, bracketDepth |-> 0])
    IN  IF st.current # <<>> THEN Append(st.tokens, st.current) ELSE st.tokens

\* what is printed: a line of text, as an output entry
Txt(t) == <<(<<"txt", t>>)>>

RECURSIVE TopFirst(_)
TopFirst(s) == IF s = <<>> THEN <<>> ELSE <<s[Len(s)]>> \o TopFirst(Pop(s, 1))

\* the :dump branch: the header, then the stack from the top down
dump(s) ==
    Txt("Stack:") \o (IF s = <<>> THEN Txt("(empty)") ELSE TopFirst(s))

\* the temporary left as the stack: the items in reverse order
restoreTemp(s) == TopFirst(s)

\* the :dump branch's two loops: the stack popped into the temporary, top
\* first, then the temporary popped back onto the stack
restore(s) == TopFirst(TopFirst(s))

\* a name already defined keeps its body
StoreKeepFirst(f, funcName, funcBody) ==
    [t \in DOMAIN f \cup {funcName} |-> IF t \in DOMAIN f THEN f[t] ELSE funcBody]

\* functions[funcName] = funcBody
Store(f, funcName, funcBody) ==
    [t \in DOMAIN f \cup {funcName} |-> IF t = funcName THEN funcBody ELSE f[t]]

\* the locals of one evaluate call
NoLocals == [defining |-> FALSE, funcName |-> <<>>, funcBody |-> <<>>]

\* every line starting from an empty dictionary
MembersFresh(s, f) ==
    [s |-> s, f |-> EmptyDict, errs |-> <<>>, out |-> <<>>,
     thrown |-> FALSE, wide |-> FALSE, endless |-> FALSE]

\* the interpreter's members during evaluate, with what was printed so far;
\* thrown: the process has died; endless: it died of a recursion without
\* end; wide: a built-in was given numbers beyond the bounds under which its
\* result is exact
Members(s, f) ==
    [s |-> s, f |-> f, errs |-> <<>>, out |-> <<>>, thrown |-> FALSE, wide |-> FALSE,
     endless |-> FALSE]

\* a built-in's name never taken for a user word
isUserWordUnlessBuiltIn(token, f) == token \in DOMAIN f /\ token \notin BuiltInNames

\* functions.find(token) != functions.end()
isUserWord(token, f) == token \in DOMAIN f

\* a guard on the depth: the word entered again returns at once
onReentryReturn(st) == st

\* evaluate entered for a word that is being executed: the same tokens meet
\* the same Dictionary again, so the calls nest until the call stack is
\* exhausted and process never returns
onReentry(st) == [st EXCEPT !.thrown = TRUE, !.endless = TRUE]

\* a definition still open at the end of the tokens committed as it stands
atReturnCommit(loc, st) ==
    IF loc.defining THEN [st EXCEPT !.f = Store(@, loc.funcName, loc.funcBody)] ELSE st

\* the return of evaluate: its locals defining, funcName and funcBody are
\* gone, the members are as they stand
atReturn(loc, st) == st

\* the body without its first token
bodyOfTail(f, token) == IF f[token] = <<>> THEN <<>> ELSE Tail(f[token])

\* functions[token]
bodyOf(f, token) == f[token]

\* evaluate(tokens, isFunctionBody) from token i on.  chain holds the words
\* being executed: a word entered again while it runs recurses without end,
\* as nothing in a body is conditional, and the process dies of it.
\* env.g is what a read out of bounds yields, env.die whether the process
\* dies of such a read.
RECURSIVE evaluateFrom(_, _, _, _, _, _, _)
evaluateFrom(tokens, i, isFunctionBody, chain, env, loc, st) ==
    IF i > Len(tokens) \/ st.thrown \/ st.wide THEN atReturn(loc, st)
    ELSE LET token == tokens[i] IN
         IF token = tDump
         THEN evaluateFrom(tokens, i + 1, isFunctionBody, chain, env, loc,
                           [st EXCEPT !.s = restore(@), !.out = @ \o dump(st.s)])
         ELSE IF ~isFunctionBody /\ ~loc.defining /\ Len(token) > 1 /\ token[1] = ":"
         THEN IF i < Len(tokens) /\ isFunctionName(Tail(token))
              THEN evaluateFrom(tokens, i + 1, isFunctionBody, chain, env,
                                [loc EXCEPT !.defining = TRUE, !.funcName = Tail(token)],
                                st)
              ELSE evaluateFrom(tokens, i + 1, isFunctionBody, chain, env,
                                [loc EXCEPT !.funcName = Tail(token)],
                                [st EXCEPT !.errs = Append(@, "Invalid function definition")])
         ELSE IF loc.defining
         THEN IF token = tEnd
              THEN evaluateFrom(tokens, i + 1, isFunctionBody, chain, env,
                                [loc EXCEPT !.defining = FALSE, !.funcBody = <<>>],
                                [st EXCEPT !.f = Store(@, loc.funcName, loc.funcBody)])
              ELSE evaluateFrom(tokens, i + 1, isFunctionBody, chain, env,
                                [loc EXCEPT !.funcBody = Append(@, token)], st)
         ELSE IF isUserWord(token, st.f)
         THEN IF token \in chain
              THEN onReentry(st)
              ELSE evaluateFrom(tokens, i + 1, isFunctionBody, chain, env, loc,
                                evaluateFrom(bodyOf(st.f, token), 1, TRUE, chain \cup {token},
                                             env, NoLocals, st))
         ELSE IF token \in BuiltInNames
         THEN IF ~Bounded(token, st.s) THEN [st EXCEPT !.wide = TRUE]
              ELSE LET r == builtIn(token, st.s, env.g)
                   IN  evaluateFrom(tokens, i + 1, isFunctionBody, chain, env, loc,
                                    [st EXCEPT !.s = r.s,
                                               !.errs = @ \o r.errs,
                                               !.out = @ \o r.out,
                                               !.thrown = r.thrown \/ (r.ub /\ env.die)])
         ELSE evaluateFrom(tokens, i + 1, isFunctionBody, chain, env, loc,
                           [st EXCEPT !.s = Append(@, parseArray(token))])

\* the input line taken as if it were a word body
evaluateAsBody(tokens, env, st) == evaluateFrom(tokens, 1, TRUE, {}, env, NoLocals, st)

evaluate(tokens, env, st) == evaluateFrom(tokens, 1, FALSE, {}, env, NoLocals, st)

\* process(input)
process(text, env, s, f) == evaluate(tokenize(text), env, Members(s, f))

(* ------------------------------- lines --------------------------------- *)
\* The script of a run: the lines it may enter, in any order and repeatedly.
\* the text of the integer n, -9 <= n <= 9
IntText(n) == IF n < 0 THEN <<"-", DigitChars[1 - n]>> ELSE <<DigitChars[n + 1]>>

\* the literal [[a,b],[c,d]]
MatrixText(M) ==
    <<"[", "[">> \o IntText(M[1]) \o <<",">> \o IntText(M[2]) \o <<"]", ",", "[">>
    \o IntText(M[3]) \o <<",">> \o IntText(M[4]) \o <<"]", "]">>

\* the tokens written on one line, a blank between them
RECURSIVE Join(_)
Join(tokens) ==
    IF Len(tokens) = 1 THEN tokens[1]
    ELSE tokens[1] \o <<" ">> \o Join(Tail(tokens))

\* the README's word definition, a word calling it, and its redefinition
wDouble == <<"d", "o", "u", "b", "l", "e">>
wQuad == <<"q", "u", "a", "d">>
\* :double dup + :end :quad double double :end
DefineDoubleQuad ==
    Join(<<(<<":">> \o wDouble), wDup, wPlus, tEnd,
           (<<":">> \o wQuad), wDouble, wDouble, tEnd>>)
\* :double dup * :end
RedefineDouble == Join(<<(<<":">> \o wDouble), wDup, wTimes, tEnd>>)
\* 3 double
CallDouble == Join(<<(<<"3">>), wDouble>>)
\* 2 quad
CallQuad == Join(<<(<<"2">>), wQuad>>)

DoubleScript == {DefineDoubleQuad, RedefineDouble, CallDouble, CallQuad}

\* reshape followed by dim
ReshapeDimScript ==
    {
     \* [1,2,3,4] [2,2] reshape dim
     <<"[", "1", ",", "2", ",", "3", ",", "4", "]", " ", "[", "2", ",", "2", "]", " ", "r", "e", "s", "h", "a", "p", "e", " ", "d", "i", "m">>,
     \* [1,2,3,4] [4] reshape dim
     <<"[", "1", ",", "2", ",", "3", ",", "4", "]", " ", "[", "4", "]", " ", "r", "e", "s", "h", "a", "p", "e", " ", "d", "i", "m">>,
     \* [1,2,3,4] [2,1,2] reshape dim
     <<"[", "1", ",", "2", ",", "3", ",", "4", "]", " ", "[", "2", ",", "1", ",", "2", "]", " ", "r", "e", "s", "h", "a", "p", "e", " ", "d", "i", "m">>,
     \* ["s",x] [1,2] reshape dim
     <<"[", "\"", "s", "\"", ",", "x", "]", " ", "[", "1", ",", "2", "]", " ", "r", "e", "s", "h", "a", "p", "e", " ", "d", "i", "m">>
    }

\* 2x2 integer matrices <<a, b, c, d>>, most pairs of which do not commute
SmallMatrices ==
    {<<1, 1, 0, 1>>, <<0, 1, 1, 0>>, <<1, 0, 1, 1>>,
     <<0, -1, 1, 0>>, <<1, 0, 0, 0>>, <<-1, 1, 0, 1>>}

\* A B matmul C matmul  and then  A B C matmul matmul
AssocLine(A, B, C) ==
    Join(<<MatrixText(A), MatrixText(B), wMatmul, MatrixText(C), wMatmul,
           MatrixText(A), MatrixText(B), MatrixText(C), wMatmul, wMatmul>>)

AssocScripts == {{AssocLine(A, B, C)} : A, B, C \in SmallMatrices}

\* reshape followed by dim: the shape [1], data holding arrays, a wrong size
ReshapeDimEdgeScript ==
    {
     \* [7] [1] reshape dim
     <<"[", "7", "]", " ", "[", "1", "]", " ", "r", "e", "s", "h", "a", "p", "e", " ", "d", "i", "m">>,
     \* [[1],[2]] [2] reshape dim
     <<"[", "[", "1", "]", ",", "[", "2", "]", "]", " ", "[", "2", "]", " ", "r", "e", "s", "h", "a", "p", "e", " ", "d", "i", "m">>,
     \* [1,2,3] [2,2] reshape dim
     <<"[", "1", ",", "2", ",", "3", "]", " ", "[", "2", ",", "2", "]", " ", "r", "e", "s", "h", "a", "p", "e", " ", "d", "i", "m">>
    }

\* definitions: built-in names, literals, word names and colon tokens in a body
DefineScript ==
    {
     \* :sq dup * :end
     <<":", "s", "q", " ", "d", "u", "p", " ", "*", " ", ":", "e", "n", "d">>,
     \* :a 1 :end :b 2 + :end
     <<":", "a", " ", "1", " ", ":", "e", "n", "d", " ", ":", "b", " ", "2", " ", "+", " ", ":", "e", "n", "d">>,
     \* :p :q [1,2] "s" sq :end
     <<":", "p", " ", ":", "q", " ", "[", "1", ",", "2", "]", " ", "\"", "s", "\"", " ", "s", "q", " ", ":", "e", "n", "d">>,
     \* :show dup :dump . :end
     <<":", "s", "h", "o", "w", " ", "d", "u", "p", " ", ":", "d", "u", "m", "p", " ", ".", " ", ":", "e", "n", "d">>
    }

\* headers with an invalid name or with nothing after them
MalformedScript ==
    {
     \* :a-b dup + :end
     <<":", "a", "-", "b", " ", "d", "u", "p", " ", "+", " ", ":", "e", "n", "d">>,
     \* 1 :foo
     <<"1", " ", ":", "f", "o", "o">>,
     \* :a-b :end x :end
     <<":", "a", "-", "b", " ", ":", "e", "n", "d", " ", "x", " ", ":", "e", "n", "d">>,
     \* :ok 1 :end
     <<":", "o", "k", " ", "1", " ", ":", "e", "n", "d">>,
     \* :é dup :end
     <<":", "é", " ", "d", "u", "p", " ", ":", "e", "n", "d">>
    }

\* a definition with nothing between the header and :end
EmptyBodyScript ==
    {
     \* :nop :end
     <<":", "n", "o", "p", " ", ":", "e", "n", "d">>,
     \* 5 nop
     <<"5", " ", "n", "o", "p">>,
     \* :nop 1 :end
     <<":", "n", "o", "p", " ", "1", " ", ":", "e", "n", "d">>,
     \* :nop :end dup
     <<":", "n", "o", "p", " ", ":", "e", "n", "d", " ", "d", "u", "p">>
    }

\* a word whose body holds a colon token, called at top level
BodyHeaderScript ==
    {
     \* :mk :inner 1 :end
     <<":", "m", "k", " ", ":", "i", "n", "n", "e", "r", " ", "1", " ", ":", "e", "n", "d">>,
     \* mk
     <<"m", "k">>,
     \* 7 dup :dump
     <<"7", " ", "d", "u", "p", " ", ":", "d", "u", "m", "p">>,
     \* mk :inner 2 :end inner
     <<"m", "k", " ", ":", "i", "n", "n", "e", "r", " ", "2", " ", ":", "e", "n", "d", " ", "i", "n", "n", "e", "r">>
    }

\* bodies that would fail or underflow if they were run when defined
DeferScript ==
    {
     \* :bad + . nosuch [1,2] :end
     <<":", "b", "a", "d", " ", "+", " ", ".", " ", "n", "o", "s", "u", "c", "h", " ", "[", "1", ",", "2", "]", " ", ":", "e", "n", "d">>,
     \* 7 8
     <<"7", " ", "8">>,
     \* bad
     <<"b", "a", "d">>,
     \* :z 1 0 / :dump :end
     <<":", "z", " ", "1", " ", "0", " ", "/", " ", ":", "d", "u", "m", "p", " ", ":", "e", "n", "d">>
    }

\* cat and dup cat over arrays of mixed elements
CatScript ==
    {
     \* [1,2] "s"
     <<"[", "1", ",", "2", "]", " ", "\"", "s", "\"">>,
     \* [[3],x] 7
     <<"[", "[", "3", "]", ",", "x", "]", " ", "7">>,
     \* cat
     <<"c", "a", "t">>,
     \* dup cat
     <<"d", "u", "p", " ", "c", "a", "t">>
    }

\* swap and swap swap over stacks of one to six items
SwapScript ==
    {
     \* [1,2] "s"
     <<"[", "1", ",", "2", "]", " ", "\"", "s", "\"">>,
     \* 7
     <<"7">>,
     \* swap
     <<"s", "w", "a", "p">>,
     \* swap swap
     <<"s", "w", "a", "p", " ", "s", "w", "a", "p">>
    }

\* the stack dump alone, amid literals and inside a definition
DumpScript ==
    {
     \* :dump
     <<":", "d", "u", "m", "p">>,
     \* 1 [2,3]
     <<"1", " ", "[", "2", ",", "3", "]">>,
     \* "s" :dump x
     <<"\"", "s", "\"", " ", ":", "d", "u", "m", "p", " ", "x">>,
     \* :w 1 :dump :end
     <<":", "w", " ", "1", " ", ":", "d", "u", "m", "p", " ", ":", "e", "n", "d">>
    }

\* literals whose brackets and quotes hold blanks and brackets
TokenScript ==
    {
     \* [1 [2 3] 4] 7
     <<"[", "1", " ", "[", "2", " ", "3", "]", " ", "4", "]", " ", "7">>,
     \* "a [b" x
     <<"\"", "a", " ", "[", "b", "\"", " ", "x">>,
     \* [1,2][3] 5
     <<"[", "1", ",", "2", "]", "[", "3", "]", " ", "5">>,
     \*   7   "b c"  
     <<" ", " ", "7", " ", " ", " ", "\"", "b", " ", "c", "\"", " ", " ">>,
     \* ["a ] b",1]x
     <<"[", "\"", "a", " ", "]", " ", "b", "\"", ",", "1", "]", "x">>
    }

\* words named like a built-in and like a number
ShadowScript ==
    {
     \* :dup 1 :end
     <<":", "d", "u", "p", " ", "1", " ", ":", "e", "n", "d">>,
     \* :5 7 :end
     <<":", "5", " ", "7", " ", ":", "e", "n", "d">>,
     \* 5 dup
     <<"5", " ", "d", "u", "p">>,
     \* :w dup :end w
     <<":", "w", " ", "d", "u", "p", " ", ":", "e", "n", "d", " ", "w">>
    }

\* words that print and fail, called alone and through another word
InlineScript ==
    {
     \* :show dup . + :end :twice show 1 show :end
     <<":", "s", "h", "o", "w", " ", "d", "u", "p", " ", ".", " ", "+", " ", ":", "e", "n", "d", " ", ":", "t", "w", "i", "c", "e", " ", "s", "h", "o", "w", " ", "1", " ", "s", "h", "o", "w", " ", ":", "e", "n", "d">>,
     \* 1 show
     <<"1", " ", "s", "h", "o", "w">>,
     \* 2 3 twice
     <<"2", " ", "3", " ", "t", "w", "i", "c", "e">>,
     \* show "s" twice
     <<"s", "h", "o", "w", " ", "\"", "s", "\"", " ", "t", "w", "i", "c", "e">>
    }

\* words naming themselves, directly and through another, and a cure
RecursionScript ==
    {
     \* :r 1 r :end :c 4 :end
     <<":", "r", " ", "1", " ", "r", " ", ":", "e", "n", "d", " ", ":", "c", " ", "4", " ", ":", "e", "n", "d">>,
     \* :a b :end :b c a :end
     <<":", "a", " ", "b", " ", ":", "e", "n", "d", " ", ":", "b", " ", "c", " ", "a", " ", ":", "e", "n", "d">>,
     \* r
     <<"r">>,
     \* 3 a
     <<"3", " ", "a">>,
     \* c :r c :end
     <<"c", " ", ":", "r", " ", "c", " ", ":", "e", "n", "d">>
    }

\* lines with an unmatched bracket or quote
UnbalancedScript ==
    {
     \* ] 1 2
     <<"]", " ", "1", " ", "2">>,
     \* 1 ] dup +
     <<"1", " ", "]", " ", "d", "u", "p", " ", "+">>,
     \* [1 2
     <<"[", "1", " ", "2">>,
     \* "a b
     <<"\"", "a", " ", "b">>,
     \* 7 [8] 9
     <<"7", " ", "[", "8", "]", " ", "9">>
    }

\* a definition left open at the end of its line, and lines after it
PendingScript ==
    {
     \* 8 :w 1 2
     <<"8", " ", ":", "w", " ", "1", " ", "2">>,
     \* 3 4
     <<"3", " ", "4">>,
     \* :end
     <<":", "e", "n", "d">>,
     \* 9 :end
     <<"9", " ", ":", "e", "n", "d">>
    }

\* the control words where a definition header may stand
ReservedScript ==
    {
     \* :end x :end
     <<":", "e", "n", "d", " ", "x", " ", ":", "e", "n", "d">>,
     \* end
     <<"e", "n", "d">>,
     \* :dump 1 :end
     <<":", "d", "u", "m", "p", " ", "1", " ", ":", "e", "n", "d">>
    }

Scripts ==
    {DoubleScript,
     ReshapeDimScript,
     ReshapeDimEdgeScript,
     DefineScript,
     MalformedScript,
     EmptyBodyScript,
     BodyHeaderScript,
     DeferScript,
     CatScript,
     SwapScript,
     DumpScript,
     TokenScript,
     ShadowScript,
     InlineScript,
     RecursionScript,
     UnbalancedScript,
     PendingScript,
     ReservedScript} \cup AssocScripts

LineInit ==
    /\ stack = <<>>
    /\ functions = EmptyDict
    /\ lastTok = <<>>
    /\ prev = <<>>
    /\ errs = <<>>
    /\ out = <<>>
    /\ aborted = FALSE
    /\ nOps = 0
    /\ nPush = 0
    /\ toks = {}
    /\ line = <<>>
    /\ script \in Scripts
    /\ nLines = 0
    /\ endless = FALSE

\* process(input) for one line of the script
Process ==
    /\ ~aborted
    /\ nLines < MaxLines
    /\ \E text \in script, g \in Garbage, die \in BOOLEAN :
          \E r \in {process(text, [g |-> g, die |-> die], stack, functions)} :
              /\ ~r.wide
              /\ stack' = r.s
              /\ functions' = r.f
              /\ errs' = r.errs
              /\ out' = r.out
              /\ aborted' = r.thrown
              /\ endless' = r.endless
              /\ prev' = stack
              /\ line' = text
              /\ nLines' = nLines + 1
              /\ UNCHANGED <<lastTok, nOps, nPush, toks, script>>

LineNext == Process

LineSpec == LineInit /\ [][LineNext]_vars

(* ------------------------------ properties ----------------------------- *)
\* the operands of the call that was just made: b on top, a below it
OpB == Top(prev)
OpA == Second(prev)
Called(names) == lastTok \in names /\ Len(prev) >= 2

\* a length-1 array holding a Number
ScalarNum(a) == Len(a) = 1 /\ IsNum(a[1])

\* a op b on integers, a the left operand
Direct(op, a, b) ==
    CASE op = wPlus -> Rat(a + b, 1)
      [] op = wMinus -> Rat(a - b, 1)
      [] op = wTimes -> Rat(a * b, 1)
      [] op = wDivide -> Rat(a, b)
      [] op = wPower -> IF b >= 0 THEN Rat(IPow(a, b), 1) ELSE Rat(1, IPow(a, -b))

\* every element that is not an array is a Number, at every depth
RECURSIVE AllLeavesNum(_)
AllLeavesNum(A) ==
    \A i \in 1..Len(A) :
        IF IsArr(A[i]) THEN AllLeavesNum(GetArr(A[i])) ELSE IsNum(A[i])

\* A is rectangular with at least one leaf: all Numbers, or all arrays of one
\* shape
RECURSIVE Rectangular(_)
Rectangular(A) ==
    /\ Len(A) > 0
    /\ \/ \A i \in 1..Len(A) : IsNum(A[i])
       \/ \A i \in 1..Len(A) :
              /\ IsArr(A[i])
              /\ Rectangular(GetArr(A[i]))
              /\ getShape(GetArr(A[i])) = getShape(GetArr(A[1]))

RECURSIVE HasZeroLeaf(_)
HasZeroLeaf(A) ==
    \E i \in 1..Len(A) :
        IF IsArr(A[i]) THEN HasZeroLeaf(GetArr(A[i]))
        ELSE IsNum(A[i]) /\ A[i][2] = 0

\* op applied to the scalar n and every leaf of A, the scalar on the left or
\* on the right
RECURSIVE MapScalar(_, _, _, _)
MapScalar(op, n, A, scalarLeft) ==
    [i \in 1..Len(A) |->
        IF IsArr(A[i]) THEN Arr(MapScalar(op, n, GetArr(A[i]), scalarLeft))
        ELSE IF scalarLeft THEN Direct(op, n, A[i][2])
        ELSE Direct(op, A[i][2], n)]

\* op applied leaf by leaf to two arrays of one shape
RECURSIVE MapPair(_, _, _)
MapPair(op, A, B) ==
    [i \in 1..Len(A) |->
        IF IsArr(A[i]) THEN Arr(MapPair(op, GetArr(A[i]), GetArr(B[i])))
        ELSE Direct(op, A[i][2], B[i][2])]

\* C1: an arithmetic word applied to two scalar Numbers a (second) and b (top),
\* b # 0 for "/", replaces them by the one scalar a op b, a the left operand,
\* and leaves the stack below them as it was.
C1_ScalarArithmetic ==
    (/\ Called(ArithOps)
     /\ ScalarNum(OpA) /\ ScalarNum(OpB)
     /\ ~(lastTok = wDivide /\ OpB[1][2] = 0))
    => /\ ~aborted
       /\ errs = <<>>
       /\ stack = Append(Pop(prev, 2), <<Direct(lastTok, OpA[1][2], OpB[1][2])>>)
       /\ Len(stack) = Len(prev) - 1
       /\ (lastTok = wPlus /\ OpB[1][2] = 0 => Top(stack) = OpA)
       /\ (lastTok = wTimes /\ OpB[1][2] = 1 => Top(stack) = OpA)

\* 1 5 3 -  leaves  1 2
C1_Witness ==
    /\ lastTok = wMinus
    /\ prev = <<(<<NumInt(1)>>), <<NumInt(5)>>, <<NumInt(3)>>>>
    /\ stack = <<(<<NumInt(1)>>), <<NumInt(2)>>>>

\* C2: a scalar Number against a rectangular array A of Numbers of any rank,
\* in either operand position, pushes the array of A's shape whose leaves are
\* op of the scalar and A's leaves in operand order.
C2_ScalarBroadcast ==
    /\ (/\ Called(ArithOps)
        /\ ScalarNum(OpA) /\ ~ScalarNum(OpB) /\ Rectangular(OpB)
        /\ ~(lastTok = wDivide /\ HasZeroLeaf(OpB)))
       => /\ ~aborted
          /\ stack = Append(Pop(prev, 2), MapScalar(lastTok, OpA[1][2], OpB, TRUE))
    /\ (/\ Called(ArithOps)
        /\ ScalarNum(OpB) /\ ~ScalarNum(OpA) /\ Rectangular(OpA)
        /\ ~(lastTok = wDivide /\ OpB[1][2] = 0))
       => /\ ~aborted
          /\ stack = Append(Pop(prev, 2), MapScalar(lastTok, OpB[1][2], OpA, FALSE))

\* C3: a bracketed literal written with spaces is pushed with one element per
\* item, so that [2] [1 2 3] * leaves [2 4 6] and the README's matmul leaves
\* [[19 22] [43 50]].
Lit123 == <<"[", "1", " ", "2", " ", "3", "]">>
Lit1234 == <<"[", "[", "1", " ", "2", "]", " ", "[", "3", " ", "4", "]", "]">>
Lit5678 == <<"[", "[", "5", " ", "6", "]", " ", "[", "7", " ", "8", "]", "]">>
Row(a, b) == Arr(<<NumInt(a), NumInt(b)>>)

C3_SpaceSeparatedLiteral ==
    /\ lastTok = Lit123 => Top(stack) = <<NumInt(1), NumInt(2), NumInt(3)>>
    /\ lastTok = Lit1234 => Top(stack) = <<Row(1, 2), Row(3, 4)>>
    /\ (Called({wTimes}) /\ OpA = <<NumInt(2)>> /\ OpB = parseArray(Lit123))
       => Top(stack) = <<NumInt(2), NumInt(4), NumInt(6)>>
    /\ (Called({wMatmul}) /\ OpA = parseArray(Lit1234) /\ OpB = parseArray(Lit5678))
       => Top(stack) = <<Row(19, 22), Row(43, 50)>>

\* C4: no call of a built-in ends the interpreter.
C4_NeverAborts == ~aborted

\* the operands a built-in needs
Need(name) == IF name \in {wDot, wDup, wRange, wDim} THEN 1 ELSE 2

\* C5: a built-in that reports an error after popping its operands leaves the
\* prior stack without those operands and pushes nothing.
C5_ErrorPushesNothing ==
    (/\ lastTok \in ArithOps \cup {wReshape, wMatmul, wRange, wDim}
     /\ Len(prev) >= Need(lastTok)
     /\ errs # <<>>)
    => stack = Pop(prev, Need(lastTok))

\* C6: a built-in called with fewer items than it needs prints an error and
\* changes neither the stack nor the dictionary.
C6_UnderflowChangesNothing ==
    [][(/\ nOps' = nOps + 1
        /\ lastTok' \in BuiltInNames \ {wClear}
        /\ Len(stack) < Need(lastTok'))
       => /\ stack' = stack
          /\ functions' = functions
          /\ Len(errs') = 1
          /\ ~aborted']_vars

\* swap on a stack of one item
C6_Witness ==
    /\ lastTok = wSwap
    /\ Len(prev) = 1
    /\ stack = prev
    /\ Len(errs) = 1

\* C7: "/" with a zero leaf in the top operand reports a division by zero,
\* pushes nothing and leaves both operands removed.
C7_DivisionByZero ==
    (/\ Called({wDivide})
     /\ Rectangular(OpA) /\ Rectangular(OpB)
     /\ (ScalarNum(OpA) \/ ScalarNum(OpB) \/ getShape(OpA) = getShape(OpB))
     /\ HasZeroLeaf(OpB))
    => /\ ~aborted
       /\ errs = <<"Division by zero">>
       /\ stack = Pop(prev, 2)

\* C8: two non-scalar operands of equal Shape whose leaves are all Numbers
\* (no zero divisor) are replaced by the one array of that Shape holding op of
\* the leaves at every index.
C8_EqualShapeElementwise ==
    (/\ Called(ArithOps)
     /\ ~ScalarNum(OpA) /\ ~ScalarNum(OpB)
     /\ getShape(OpA) = getShape(OpB)
     /\ AllLeavesNum(OpA) /\ AllLeavesNum(OpB)
     /\ ~(lastTok = wDivide /\ HasZeroLeaf(OpB)))
    => /\ ~aborted
       /\ Len(stack) = Len(prev) - 1
       /\ getShape(Top(stack)) = getShape(OpA)
       /\ (Rectangular(OpA) /\ Rectangular(OpB)
             => stack = Append(Pop(prev, 2), MapPair(lastTok, OpA, OpB)))

\* C9: when neither operand is a scalar Number and their Shapes differ, the
\* word reports an error, pushes nothing and consumes both operands.
C9_NoDimensionBroadcast ==
    (/\ Called(ArithOps)
     /\ ~ScalarNum(OpA) /\ ~ScalarNum(OpB)
     /\ getShape(OpA) # getShape(OpB))
    => /\ ~aborted
       /\ errs = <<"requires a scalar or arrays of equal shape">>
       /\ stack = Pop(prev, 2)

\* [1,2] [[1,2],[3,4]] *  (same first extent, different rank)
C9_Witness ==
    /\ lastTok = wTimes
    /\ prev = <<(<<NumInt(1), NumInt(2)>>), <<Row(1, 2), Row(3, 4)>>>>
    /\ stack = <<>>
    /\ errs # <<>>

\* the shape list is one reshape accepts for data: positive whole Numbers
\* whose product is the length of data
RECURSIVE Product(_)
Product(dims) == IF dims = <<>> THEN 1 ELSE dims[1] * Product(Tail(dims))

ShapeDims(shape) == [i \in 1..Len(shape) |-> shape[i][2]]

ValidShape(shape, data) ==
    /\ Len(shape) > 0
    /\ \A i \in 1..Len(shape) :
           IsNum(shape[i]) /\ shape[i][3] = 1 /\ shape[i][2] > 0
    /\ Product(ShapeDims(shape)) = Len(data)

\* the array whose leaf at (i1..ik) is data[(..(i1*d2 + i2)*d3 + ..)*dk + ik],
\* indices from 0; base is the offset of the block being built
RECURSIVE RowMajor(_, _, _)
RowMajor(data, dims, base) ==
    IF Len(dims) = 1
    THEN [i \in 1..dims[1] |-> data[base + i]]
    ELSE [i \in 1..dims[1] |->
             Arr(RowMajor(data, Tail(dims), base + (i - 1) * Product(Tail(dims))))]

\* the leaves of a k-level array, depth first
RECURSIVE Flatten(_, _)
RECURSIVE FlattenFrom(_, _, _)
Flatten(A, k) == IF k = 1 THEN A ELSE FlattenFrom(A, k, 1)
FlattenFrom(A, k, i) ==
    IF i > Len(A) THEN <<>>
    ELSE Flatten(GetArr(A[i]), k - 1) \o FlattenFrom(A, k, i + 1)

\* C10: reshape with a valid shape list (d1..dk) replaces data and the list
\* by the k-level array laid out in row-major order, whose depth-first
\* flattening is data.
C10_ReshapeRowMajor ==
    (Called({wReshape}) /\ ValidShape(OpB, OpA))
    => /\ ~aborted
       /\ errs = <<>>
       /\ stack = Append(Pop(prev, 2), RowMajor(OpA, ShapeDims(OpB), 0))
       /\ Flatten(Top(stack), Len(OpB)) = OpA

\* [1,2,3,4] [2,2] reshape  leaves  [[1,2],[3,4]]
C10_Witness ==
    /\ lastTok = wReshape
    /\ prev = <<(<<NumInt(1), NumInt(2), NumInt(3), NumInt(4)>>),
                <<NumInt(2), NumInt(2)>>>>
    /\ stack = <<(<<Row(1, 2), Row(3, 4)>>)>>

\* the tokens of the line that was just processed
LineTokens == tokenize(line)

\* the line is  data shape reshape dim  with a shape list valid for data
ReshapeDimLine ==
    /\ Len(LineTokens) = 4
    /\ LineTokens[3] = wReshape
    /\ LineTokens[4] = wDim
    /\ ValidShape(parseArray(LineTokens[2]), parseArray(LineTokens[1]))

\* C11: data shape reshape dim, for a list of positive whole numbers whose
\* product is the length of data, leaves on top of the stack an array equal
\* to the shape list.
C11_ReshapeDimRoundTrip ==
    ReshapeDimLine
    => /\ ~aborted
       /\ Len(stack) = Len(prev) + 1
       /\ Top(stack) = parseArray(LineTokens[2])

\* the sizes met going down the first child of each level
RECURSIVE Sizes(_)
Sizes(A) ==
    <<Len(A)>> \o (IF Len(A) > 0 /\ IsArr(A[1]) THEN Sizes(GetArr(A[1])) ELSE <<>>)

\* uniformly nested: no element is an array, or all are arrays, each uniformly
\* nested, with the same sizes at every level
RECURSIVE Uniform(_)
Uniform(A) ==
    \/ \A i \in 1..Len(A) : ~IsArr(A[i])
    \/ \A i \in 1..Len(A) :
           /\ IsArr(A[i])
           /\ Uniform(GetArr(A[i]))
           /\ Sizes(GetArr(A[i])) = Sizes(GetArr(A[1]))

\* a length-1 array whose sole element is not an Array
ScalarLike(A) == Len(A) = 1 /\ ~IsArr(A[1])

\* C12: dim replaces the top array by exactly one array: the sizes of its
\* levels, outermost first, when it is uniformly nested and not a scalar, and
\* the empty array when it is a length-1 array whose element is not an Array.
C12_DimResult ==
    (lastTok = wDim /\ Len(prev) >= 1 /\ Uniform(Top(prev)))
    => /\ ~aborted
       /\ errs = <<>>
       /\ Len(stack) = Len(prev)
       /\ Pop(stack, 1) = Pop(prev, 1)
       /\ Top(stack) = IF ScalarLike(Top(prev)) THEN <<>>
                       ELSE [k \in 1..Len(Sizes(Top(prev))) |->
                                NumInt(Sizes(Top(prev))[k])]

\* [[1,2],[3,4]] dim  leaves  [2,2]
C12_Witness ==
    /\ lastTok = wDim
    /\ prev = <<(<<Row(1, 2), Row(3, 4)>>)>>
    /\ stack = <<(<<NumInt(2), NumInt(2)>>)>>

\* among the elements of A there is a sub-array next to a non-array, or next
\* to a sub-array of another length
MixedSiblings(A) ==
    \E i, j \in 1..Len(A) :
        /\ IsArr(A[i])
        /\ ~IsArr(A[j]) \/ Len(GetArr(A[j])) # Len(GetArr(A[i]))

\* such siblings exist at some level, in some branch of A
RECURSIVE NonUniformSomewhere(_)
NonUniformSomewhere(A) ==
    \/ MixedSiblings(A)
    \/ \E i \in 1..Len(A) : IsArr(A[i]) /\ NonUniformSomewhere(GetArr(A[i]))

\* C13: dim reports the non-uniform-array error whenever, at any level and in
\* any branch of the top array, siblings are sub-arrays of different lengths
\* or sub-arrays mixed with non-arrays.
C13_NonUniformAnywhere ==
    (lastTok = wDim /\ Len(prev) >= 1 /\ NonUniformSomewhere(Top(prev)))
    => errs = <<"Non-uniform array for dim">>

\* A is an m x n array of integers, m and n at least 1
IsMatrix(A) ==
    /\ Len(A) >= 1
    /\ \A i \in 1..Len(A) :
           /\ IsArr(A[i])
           /\ Len(GetArr(A[i])) = Len(GetArr(A[1]))
           /\ Len(GetArr(A[i])) >= 1
           /\ \A k \in 1..Len(GetArr(A[i])) :
                  IsNum(GetArr(A[i])[k]) /\ GetArr(A[i])[k][3] = 1
Rows(A) == Len(A)
Cols(A) == Len(GetArr(A[1]))
Entry(A, i, j) == GetArr(A[i])[j][2]

\* the sum of f over the indices in K
RECURSIVE SumOver(_, _)
SumOver(K, f) ==
    IF K = {} THEN 0
    ELSE LET k == CHOOSE x \in K : TRUE IN f[k] + SumOver(K \ {k}, f)

\* the matrix product of A and B
MatProd(A, B) ==
    [i \in 1..Rows(A) |->
        Arr([j \in 1..Cols(B) |->
                NumInt(SumOver(1..Cols(A),
                               [k \in 1..Cols(A) |-> Entry(A, i, k) * Entry(B, k, j)]))])]

\* C14: matmul applied to an m x n array a (second) and an n x p array b (top)
\* of Numbers replaces them by the one m x p array whose entry (i, j) is the
\* sum over k of a[i][k] * b[k][j].
C14_MatmulProduct ==
    (/\ Called({wMatmul})
     /\ IsMatrix(OpA) /\ IsMatrix(OpB)
     /\ Cols(OpA) = Rows(OpB))
    => /\ ~aborted
       /\ errs = <<>>
       /\ stack = Append(Pop(prev, 2), MatProd(OpA, OpB))

\* [[1,2],[3,4]] [[5,6],[7,8]] matmul  leaves  [[19,22],[43,50]]
C14_Witness ==
    /\ lastTok = wMatmul
    /\ prev = <<(<<Row(1, 2), Row(3, 4)>>), <<Row(5, 6), Row(7, 8)>>>>
    /\ stack = <<(<<Row(19, 22), Row(43, 50)>>)>>

\* the line is  A B matmul C matmul A B C matmul matmul  for 2x2 integer
\* matrices A, B, C
AssocTokens ==
    /\ Len(LineTokens) = 10
    /\ \A k \in {3, 5, 9, 10} : LineTokens[k] = wMatmul
    /\ LineTokens[6] = LineTokens[1]
    /\ LineTokens[7] = LineTokens[2]
    /\ LineTokens[8] = LineTokens[4]
    /\ \A k \in {1, 2, 4} :
           LET M == parseArray(LineTokens[k])
           IN  IsMatrix(M) /\ Rows(M) = 2 /\ Cols(M) = 2

\* C15: for 2x2 integer matrices A, B, C, A B matmul C matmul and
\* A B C matmul matmul leave equal arrays on top of the stack.
C15_MatmulAssociative ==
    AssocTokens
    => /\ ~aborted
       /\ errs = <<>>
       /\ Len(stack) = Len(prev) + 2
       /\ Top(stack) = Second(stack)
       /\ Top(stack) = MatProd(MatProd(parseArray(LineTokens[1]),
                                       parseArray(LineTokens[2])),
                               parseArray(LineTokens[4]))

\* [[1,1],[0,1]] [[0,1],[1,0]] [[1,0],[1,1]] : both orders leave [[2,1],[1,0]]
C15_Witness ==
    /\ line = AssocLine(<<1, 1, 0, 1>>, <<0, 1, 1, 0>>, <<1, 0, 1, 1>>)
    /\ stack = <<(<<Row(2, 1), Row(1, 0)>>), <<Row(2, 1), Row(1, 0)>>>>

\* tok is :name for a name isFunctionName accepts, other than :end and :dump
IsHeader(tok) ==
    /\ Len(tok) > 1
    /\ tok[1] = ":"
    /\ tok \notin {tEnd, tDump}
    /\ isFunctionName(Tail(tok))

\* t[a..b] is  :name t1 ... tk :end  with k >= 1 and no ti equal to :end
OneDefinition(t, a, b) ==
    /\ a + 1 < b
    /\ b <= Len(t)
    /\ IsHeader(t[a])
    /\ t[b] = tEnd
    /\ \A k \in (a + 1)..(b - 1) : t[k] # tEnd

\* the dictionary maps the name of header t[a] to the tokens t[a+1..b-1]
Holds(f, t, a, b) ==
    /\ Tail(t[a]) \in DOMAIN f
    /\ f[Tail(t[a])] = SubSeq(t, a + 1, b - 1)

\* C16: after a line  :name t1 ... tk :end  the dictionary maps name to
\* exactly t1 ... tk, whatever the tokens ti other than :end are; of two
\* definitions on one line the second holds its own tokens only.
C16_DefinitionStoresBody ==
    /\ OneDefinition(LineTokens, 1, Len(LineTokens))
       => Holds(functions, LineTokens, 1, Len(LineTokens))
    /\ \A m \in 1..Len(LineTokens) :
           (OneDefinition(LineTokens, 1, m)
            /\ OneDefinition(LineTokens, m + 1, Len(LineTokens)))
           => /\ Holds(functions, LineTokens, m + 1, Len(LineTokens))
              /\ LineTokens[1] # LineTokens[m + 1]
                 => Holds(functions, LineTokens, 1, m)

\* the dictionary maps name to body
DefinedAs(name, body) == name \in DOMAIN functions /\ functions[name] = body

\* C17: a redefinition replaces the body of a word, and a word whose body
\* names the redefined word executes the new body when it is next invoked:
\* with quad defined as double double, 2 quad leaves [8] while double is
\* dup + and [16] once double has been redefined as dup *; 3 double leaves [6].
C17_LateBinding ==
    /\ line = RedefineDouble => DefinedAs(wDouble, <<wDup, wTimes>>)
    /\ line = DefineDoubleQuad
       => DefinedAs(wDouble, <<wDup, wPlus>>) /\ DefinedAs(wQuad, <<wDouble, wDouble>>)
    /\ (line = CallDouble /\ DefinedAs(wDouble, <<wDup, wPlus>>))
       => stack = Append(prev, <<NumInt(6)>>)
    /\ (line = CallDouble /\ DefinedAs(wDouble, <<wDup, wTimes>>))
       => stack = Append(prev, <<NumInt(9)>>)
    /\ (line = CallQuad /\ DefinedAs(wQuad, <<wDouble, wDouble>>)
        /\ DefinedAs(wDouble, <<wDup, wPlus>>))
       => stack = Append(prev, <<NumInt(8)>>)
    /\ (line = CallQuad /\ DefinedAs(wQuad, <<wDouble, wDouble>>)
        /\ DefinedAs(wDouble, <<wDup, wTimes>>))
       => stack = Append(prev, <<NumInt(16)>>)

\* quad was defined while double was dup +, double was then redefined as
\* dup *, and 2 quad has left [16]
C17_Witness ==
    /\ line = CallQuad
    /\ nLines = 3
    /\ DefinedAs(wQuad, <<wDouble, wDouble>>)
    /\ DefinedAs(wDouble, <<wDup, wTimes>>)
    /\ stack = <<(<<NumInt(16)>>)>>

\* tok is a colon-prefixed token other than :dump and :end
ColonToken(tok) == Len(tok) > 1 /\ tok[1] = ":" /\ tok \notin {tEnd, tDump}

\* the line opens with a header whose name has a character that is not
\* alphanumeric, underscore or non-ASCII, or it ends with a header that no
\* colon-prefixed token precedes
MalformedDefinition(t) ==
    /\ Len(t) >= 1
    /\ \/ ColonToken(t[1]) /\ ~isFunctionName(Tail(t[1]))
       \/ /\ ColonToken(t[Len(t)])
          /\ \A k \in 1..(Len(t) - 1) : t[k][1] # ":"

\* C18: a line with a malformed definition reports an invalid-definition
\* error and, once the whole line is processed, has left the dictionary
\* unchanged, whatever follows the rejected header.
C18_MalformedLeavesDictionary ==
    [][(nLines' = nLines + 1 /\ MalformedDefinition(tokenize(line')))
       => /\ functions' = functions
          /\ \E k \in 1..Len(errs') : errs'[k] = "Invalid function definition"]_vars

\* the line opens with  :name :end  for a valid name
EmptyDefinition(t) == Len(t) >= 2 /\ IsHeader(t[1]) /\ t[2] = tEnd

\* C19: a definition with an empty body is rejected: an error is reported and
\* the dictionary entry of the name is neither added nor changed.
C19_EmptyBodyRejected ==
    [][(nLines' = nLines + 1 /\ EmptyDefinition(tokenize(line')))
       => /\ errs' # <<>>
          /\ functions' = functions]_vars

\* the line has a token :key, key a valid name, and an :end after it
DefinesKey(t, key) ==
    \E a, b \in 1..Len(t) :
        /\ a < b
        /\ t[a] = <<":">> \o key
        /\ isFunctionName(key)
        /\ t[b] = tEnd

\* running the body of any defined word on the current stack gives back the
\* dictionary as it was, body tokens of the form :name included
InvocationKeepsDictionary ==
    \A w \in DOMAIN functions : \A g \in Garbage :
        evaluateFrom(functions[w], 1, TRUE, {w}, [g |-> g, die |-> FALSE],
                     NoLocals, Members(stack, functions)).f = functions

\* C20: the dictionary changes only at the keys whose definition a header of
\* the top-level line opens and an :end closes; built-ins, literals, :dump
\* and word invocations leave it as it was.
C20_DictionaryFrame ==
    /\ []InvocationKeepsDictionary
    /\ [][nLines' = nLines + 1
          => /\ DOMAIN functions \subseteq DOMAIN functions'
             /\ \A key \in DOMAIN functions' :
                    (key \notin DOMAIN functions \/ functions'[key] # functions[key])
                    => DefinesKey(tokenize(line'), key)]_vars

\* mk, whose body is  :inner 1 , has pushed the text :inner and 1 and defined
\* nothing
C20_Witness ==
    /\ line = <<"m", "k">>
    /\ DOMAIN functions = {<<"m", "k">>}
    /\ functions[<<"m", "k">>] = <<(<<":", "i", "n", "n", "e", "r">>), <<"1">>>>
    /\ stack = <<parseArray(<<":", "i", "n", "n", "e", "r">>), <<NumInt(1)>>>>

\* the whole line is one definition  :name t1 ... tk :end
WholeLineDefinition(t) ==
    /\ Len(t) >= 2
    /\ IsHeader(t[1])
    /\ t[Len(t)] = tEnd
    /\ \A k \in 2..(Len(t) - 1) : t[k] # tEnd

wBad == <<"b", "a", "d">>
BadBody ==
    <<wPlus, wDot, (<<"n", "o", "s", "u", "c", "h">>), (<<"[", "1", ",", "2", "]">>)>>

NaturalScalar(a) == ScalarNum(a) /\ a[1][3] = 1 /\ a[1][2] >= 0

\* C22: range applied to a scalar non-negative integer n replaces it by the
\* array [0, 1, ..., n-1] of length n, the items below untouched.
C22_RangeResult ==
    (lastTok = wRange /\ Len(prev) >= 1 /\ NaturalScalar(Top(prev)))
    => /\ ~aborted
       /\ errs = <<>>
       /\ Len(stack) = Len(prev)
       /\ Pop(stack, 1) = Pop(prev, 1)
       /\ Len(Top(stack)) = Top(prev)[1][2]
       /\ \A k \in 1..Len(Top(stack)) : Top(stack)[k] = NumInt(k - 1)

\* 3 range  leaves  [0,1,2]  over an item below
C22_Witness ==
    /\ lastTok = wRange
    /\ Len(prev) = 2
    /\ Top(prev) = <<NumInt(3)>>
    /\ stack = <<prev[1], <<NumInt(0), NumInt(1), NumInt(2)>>>>

\* C23: range applied to a negative or fractional scalar, to a non-Number or
\* to an array that is not a scalar reports an error, pushes nothing and does
\* not put its argument back.
C23_RangeErrors ==
    (lastTok = wRange /\ Len(prev) >= 1 /\ ~NaturalScalar(Top(prev)))
    => /\ ~aborted
       /\ Len(errs) = 1
       /\ stack = Pop(prev, 1)

\* 2.5 range over an item below
C23_Witness ==
    /\ lastTok = wRange
    /\ Len(prev) = 2
    /\ Top(prev) = <<Num(5, 2)>>
    /\ stack = <<prev[1]>>
    /\ errs = <<"range requires a non-negative integer">>

\* C24: cat replaces a (second) and b (top) by the one array holding a's
\* elements followed by b's, whatever the elements are; dup cat replaces the
\* top array X by X followed by X, the rest of the stack unchanged.
C24_CatConcatenates ==
    /\ (LineTokens = <<wCat>> /\ Len(prev) >= 2)
       => /\ ~aborted
          /\ errs = <<>>
          /\ Len(stack) = Len(prev) - 1
          /\ Pop(stack, 1) = Pop(prev, 2)
          /\ Len(Top(stack)) = Len(Second(prev)) + Len(Top(prev))
          /\ \A k \in 1..Len(Second(prev)) : Top(stack)[k] = Second(prev)[k]
          /\ \A k \in 1..Len(Top(prev)) :
                 Top(stack)[Len(Second(prev)) + k] = Top(prev)[k]
    /\ (LineTokens = <<wDup, wCat>> /\ Len(prev) >= 1)
       => /\ ~aborted
          /\ errs = <<>>
          /\ Len(stack) = Len(prev)
          /\ Pop(stack, 1) = Pop(prev, 1)
          /\ Len(Top(stack)) = 2 * Len(Top(prev))
          /\ Top(stack) = Top(prev) \o Top(prev)

\* [1,2] "s" cat  has left  [1,2,"s"]
C24_Witness ==
    /\ LineTokens = <<wCat>>
    /\ prev = <<(<<NumInt(1), NumInt(2)>>), <<Str(<<"s">>)>>>>
    /\ stack = <<(<<NumInt(1), NumInt(2), Str(<<"s">>)>>)>>

\* C25: swap exchanges the top two items of a stack of depth >= 2 and leaves
\* the items below in place; swap swap leaves the whole stack as it was.
C25_SwapInvolution ==
    /\ (LineTokens = <<wSwap>> /\ Len(prev) >= 2)
       => /\ ~aborted
          /\ errs = <<>>
          /\ Len(stack) = Len(prev)
          /\ Pop(stack, 2) = Pop(prev, 2)
          /\ Top(stack) = Second(prev)
          /\ Second(stack) = Top(prev)
    /\ (LineTokens = <<wSwap, wSwap>> /\ Len(prev) >= 2)
       => /\ ~aborted
          /\ errs = <<>>
          /\ stack = prev

\* swap swap over the stack  [1,2] "s" 7
C25_Witness ==
    /\ LineTokens = <<wSwap, wSwap>>
    /\ prev = <<(<<NumInt(1), NumInt(2)>>), <<Str(<<"s">>)>>, <<NumInt(7)>>>>
    /\ stack = prev

\* what a dump of the stack s prints: the header, then the items from the
\* top of the stack down to the bottom, or (empty)
Shown(s) ==
    Txt("Stack:") \o (IF s = <<>> THEN Txt("(empty)")
                      ELSE [k \in 1..Len(s) |-> s[Len(s) + 1 - k]])

wW == <<"w">>
\* "s" :dump x
DumpAmidLiterals == <<"\"", "s", "\"", " ">> \o tDump \o <<" ", "x">>
\* :w 1 :dump :end
DumpInDefinition == <<":", "w", " ", "1", " ">> \o tDump \o <<" ">> \o tEnd

\* C26: :dump leaves the stack holding the same items in the same order, at
\* any depth and on the empty stack, at the top level, amid other tokens and
\* inside a definition, and prints the items from the top down to the bottom.
C26_DumpKeepsStack ==
    /\ LineTokens = <<tDump>>
       => ~aborted /\ errs = <<>> /\ stack = prev /\ out = Shown(prev)
    /\ line = DumpAmidLiterals
       => /\ ~aborted
          /\ errs = <<>>
          /\ stack = prev \o <<(<<Str(<<"s">>)>>), <<Chr("x")>>>>
          /\ out = Shown(Append(prev, <<Str(<<"s">>)>>))
    /\ line = DumpInDefinition
       => /\ ~aborted
          /\ errs = <<>>
          /\ stack = prev
          /\ out = Shown(prev)
          /\ DefinedAs(wW, <<(<<"1">>)>>)

\* :dump over the stack  1 [2,3] "s" x  printing x, "s", [2,3], 1
C26_Witness ==
    /\ LineTokens = <<tDump>>
    /\ prev = <<(<<NumInt(1)>>), <<NumInt(2), NumInt(3)>>,
                <<Str(<<"s">>)>>, <<Chr("x")>>>>
    /\ stack = prev
    /\ out = Txt("Stack:") \o <<(<<Chr("x")>>), <<Str(<<"s">>)>>,
                                <<NumInt(2), NumInt(3)>>, <<NumInt(1)>>>>

\* the character at i opens or closes a quotation
QuoteAt(t, i) == t[i] = "\"" /\ (i = 1 \/ t[i - 1] # "\\")
\* the character at i lies inside a quotation
Quoted(t, i) == Cardinality({j \in 1..(i - 1) : QuoteAt(t, j)}) % 2 = 1
\* the character at i is neither a quote nor inside a quotation
Bare(t, i) == ~QuoteAt(t, i) /\ ~Quoted(t, i)
\* the brackets open after the character at i
Depth(t, i) ==
    Cardinality({j \in 1..i : Bare(t, j) /\ t[j] = "["})
    - Cardinality({j \in 1..i : Bare(t, j) /\ t[j] = "]"})
Balanced(t) ==
    /\ Cardinality({j \in 1..Len(t) : QuoteAt(t, j)}) % 2 = 0
    /\ \A i \in 1..Len(t) : Depth(t, i) >= 0
    /\ Depth(t, Len(t)) = 0
\* whitespace outside all brackets and quotes
Separator(t, i) == Bare(t, i) /\ iswspace(t[i]) /\ Depth(t, i) = 0
\* a ] outside quotes returning the depth to 0
Closing(t, i) == Bare(t, i) /\ t[i] = "]" /\ Depth(t, i) = 0
\* the stretches a..b of t free of separators, cut after each closing bracket
Stretches(t) ==
    {ab \in (1..Len(t)) \X (1..Len(t)) :
        /\ ab[1] <= ab[2]
        /\ \A i \in ab[1]..ab[2] : ~Separator(t, i)
        /\ \A i \in ab[1]..(ab[2] - 1) : ~Closing(t, i)
        /\ ab[1] = 1 \/ Separator(t, ab[1] - 1) \/ Closing(t, ab[1] - 1)
        /\ ab[2] = Len(t) \/ Separator(t, ab[2] + 1) \/ Closing(t, ab[2])}
\* the stretches are the tokens, in the order of the line
SplitsAs(t, tokens) ==
    /\ Len(tokens) = Cardinality(Stretches(t))
    /\ \A ab \in Stretches(t) :
           tokens[Cardinality({cd \in Stretches(t) : cd[1] <= ab[1]})]
               = SubSeq(t, ab[1], ab[2])

\* the longest line the splitting is compared on
TokenLineLen == 14

\* [1 [2 3] 4] 7
NestedBlanksLine == <<"[", "1", " ", "[", "2", " ", "3", "]", " ", "4", "]", " ", "7">>
\* "a [b" x
QuotedBracketLine == <<"\"", "a", " ", "[", "b", "\"", " ", "x">>
\* [1,2][3] 5
AdjacentLine == <<"[", "1", ",", "2", "]", "[", "3", "]", " ", "5">>

\* C27: a line with balanced brackets and quotes is split at the whitespace
\* outside all brackets and quotes and after each ] outside quotes that
\* returns the depth to 0, and nowhere else: [1 [2 3] 4] and "a [b" are one
\* token each, and [1,2][3] is two.
C27_TokenizeSplits ==
    /\ (Len(line) <= TokenLineLen /\ Balanced(line)) => SplitsAs(line, LineTokens)
    /\ line = NestedBlanksLine
       => /\ LineTokens = <<SubSeq(line, 1, 11), <<"7">>>>
          /\ ~aborted => Len(stack) = Len(prev) + 2
    /\ line = QuotedBracketLine
       => /\ LineTokens = <<SubSeq(line, 1, 6), <<"x">>>>
          /\ ~aborted => stack = prev \o <<(<<Str(<<"a", " ", "[", "b">>)>>), <<Chr("x")>>>>
    /\ line = AdjacentLine
       => LineTokens = <<SubSeq(line, 1, 5), SubSeq(line, 6, 8), <<"5">>>>

\* [1 [2 3] 4] 7  has pushed two items
C27_Witness ==
    /\ line = NestedBlanksLine
    /\ Balanced(line)
    /\ Len(LineTokens) = 2
    /\ Len(stack) = Len(prev) + 2

\* the whole of t is a decimal number: an optional sign, then digits with at
\* most one point among them
IsDecimal(t) ==
    LET body == IF t # <<>> /\ t[1] \in {"-", "+"} THEN Tail(t) ELSE t
    IN  /\ \E k \in 1..Len(body) : IsDigit(body[k])
        /\ \A k \in 1..Len(body) : IsDigit(body[k]) \/ body[k] = "."
        /\ Cardinality({k \in 1..Len(body) : body[k] = "."}) <= 1
\* the element a token that is not bracketed stands for, by the first rule
\* that matches: Number, quoted Text, Character, raw Text
Classified(t) ==
    IF IsDecimal(t) THEN stod(t).val
    ELSE IF Len(t) >= 2 /\ t[1] = "\"" /\ t[Len(t)] = "\""
         THEN Str(SubSeq(t, 2, Len(t) - 1))
    ELSE IF Len(t) = 1 THEN Chr(t[1])
    ELSE Str(t)

\* C28: a literal is classified by the first rule that matches, and is a
\* Number only when the whole token is a decimal number: 5x is the raw Text
\* 5x, and the one piece of [1 2 3] is the raw Text 1 2 3.
C28_Classification ==
    /\ (lastTok \in ClassTokens /\ lastTok # Lit123)
       => stack = Append(prev, <<Classified(lastTok)>>)
    /\ (lastTok \in ClassTokens /\ lastTok = Lit123)
       => stack = Append(prev, <<Str(<<"1", " ", "2", " ", "3">>)>>)

\* the commas of t outside every bracket and quotation
TopCommas(t) == {i \in 1..Len(t) : Bare(t, i) /\ t[i] = "," /\ Depth(t, i) = 0}
\* the stretches a..b of t between two such commas, the empty ones (b = a - 1)
\* included
Pieces(t) ==
    {ab \in (1..(Len(t) + 1)) \X (0..Len(t)) :
        /\ ab[1] <= ab[2] + 1
        /\ ab[1] = 1 \/ (ab[1] - 1) \in TopCommas(t)
        /\ ab[2] = Len(t) \/ (ab[2] + 1) \in TopCommas(t)
        /\ \A i \in ab[1]..ab[2] : i \notin TopCommas(t)}
\* those holding more than spaces and tabs
FilledPieces(t) == {ab \in Pieces(t) : \E i \in ab[1]..ab[2] : ~IsBlank(t[i])}
Interior(tok) == SubSeq(tok, 2, Len(tok) - 1)

\* [1, [2, 3], "a,b"]
LitMixed ==
    <<"[", "1", ",", " ", "[", "2", ",", " ", "3", "]", ",", " ",
      "\"", "a", ",", "b", "\"", "]">>
\* [1,,2]
LitGap == <<"[", "1", ",", ",", "2", "]">>
\* []
LitEmpty == <<"[", "]">>
\* [ 7 ,x, ]
LitBlanks == <<"[", " ", "7", " ", ",", "x", ",", " ", "]">>
\* [[1,[2,3]],"],["]
LitDeep ==
    <<"[", "[", "1", ",", "[", "2", ",", "3", "]", "]", ",",
      "\"", "]", ",", "[", "\"", "]">>

\* C29: a bracketed token becomes one element per non-empty piece between
\* the commas outside nested brackets and quotes, each piece trimmed of
\* spaces and tabs and parsed as a literal in its turn.
C29_ParseArraySplits ==
    /\ lastTok \in ArrayTokens \ {wCat}
       => /\ Len(stack) = Len(prev) + 1
          /\ Pop(stack, 1) = prev
          /\ Len(Top(stack)) = Cardinality(FilledPieces(Interior(lastTok)))
    /\ lastTok = LitMixed
       => Top(stack) = <<NumInt(1), Arr(<<NumInt(2), NumInt(3)>>),
                         Str(<<"a", ",", "b">>)>>
    /\ lastTok = LitGap
       => Top(stack) = <<NumInt(1), NumInt(2)>>
    /\ lastTok = LitEmpty => Top(stack) = <<>>
    /\ lastTok = LitBlanks => Top(stack) = <<NumInt(7), Chr("x")>>
    /\ lastTok = LitDeep
       => Top(stack) = <<Arr(<<NumInt(1), Arr(<<NumInt(2), NumInt(3)>>)>>),
                         Str(<<"]", ",", "[">>)>>

\* [1, [2, 3], "a,b"]  pushed as an array of three elements
C29_Witness ==
    /\ lastTok = LitMixed
    /\ Len(Top(stack)) = 3
    /\ Top(stack)[2] = Arr(<<NumInt(2), NumInt(3)>>)
    /\ Top(stack)[3] = Str(<<"a", ",", "b">>)

\* C30: reshape given a shape list that is empty, holds a non-Number or a
\* Number that is zero, negative or fractional, or whose product is not the
\* length of data, reports one error, pushes nothing and consumes both
\* operands.
C30_ReshapeErrors ==
    (Called({wReshape}) /\ ~ValidShape(OpB, OpA))
    => /\ ~aborted
       /\ Len(errs) = 1
       /\ out = <<>>
       /\ stack = Pop(prev, 2)

\* [1,2,3,4] [3,2] reshape  leaves nothing
C30_Witness ==
    /\ lastTok = wReshape
    /\ prev = <<(<<NumInt(1), NumInt(2), NumInt(3), NumInt(4)>>),
                <<NumInt(3), NumInt(2)>>>>
    /\ stack = <<>>
    /\ errs = <<"Data size does not match shape dimensions">>

\* A has Shape of rank 2 and Numbers for leaves: one row at least, every row
\* an array of the same length with only Numbers in it
NumberGrid(A) ==
    /\ Len(A) >= 1
    /\ \A i \in 1..Len(A) :
           /\ IsArr(A[i])
           /\ Len(GetArr(A[i])) = Len(GetArr(A[1]))
           /\ \A k \in 1..Len(GetArr(A[i])) : IsNum(GetArr(A[i])[k])

\* C31: matmul pushes a result exactly when both operands have Shape of rank
\* 2 with Numbers for leaves and a has as many columns as b has rows; in
\* every other case it reports one error, pushes nothing and consumes both
\* operands.
C31_MatmulErrors ==
    Called({wMatmul})
    => /\ ~aborted
       /\ IF NumberGrid(OpA) /\ NumberGrid(OpB) /\ Cols(OpA) = Rows(OpB)
          THEN /\ errs = <<>>
               /\ Pop(stack, 1) = Pop(prev, 2)
               /\ Len(stack) = Len(prev) - 1
               /\ Len(Top(stack)) = Rows(OpA)
               /\ \A i \in 1..Rows(OpA) :
                      IsArr(Top(stack)[i]) /\ Len(GetArr(Top(stack)[i])) = Cols(OpB)
          ELSE /\ Len(errs) = 1
               /\ stack = Pop(prev, 2)

\* [[1,2,3]] [[1,2],[3,4]] matmul  (three columns against two rows) leaves
\* nothing
C31_Witness ==
    /\ lastTok = wMatmul
    /\ prev = <<(<<Arr(<<NumInt(1), NumInt(2), NumInt(3)>>)>>),
                <<Row(1, 2), Row(3, 4)>>>>
    /\ stack = <<>>
    /\ errs = <<"Incompatible dimensions for matmul">>

wFive == <<"5">>
\* 5 dup
FiveDupLine == <<"5", " ">> \o wDup
\* :w dup :end w
ViaWordLine == <<":", "w", " ">> \o wDup \o <<" ">> \o tEnd \o <<" ", "w">>
\* what the token 5 pushes, and what the token dup makes of the stack s, by
\* the dictionary of the script
AfterFive(s) ==
    Append(s, IF DefinedAs(wFive, <<(<<"7">>)>>) THEN <<NumInt(7)>> ELSE <<NumInt(5)>>)
AfterDup(s) ==
    IF DefinedAs(wDup, <<(<<"1">>)>>) THEN Append(s, <<NumInt(1)>>)
    ELSE IF s = <<>> THEN s ELSE Append(s, Top(s))

\* C32: once dup and 5 are user words, the tokens dup and 5 invoke them, at
\* the top level and inside another word's body, and neither duplicates the
\* top nor pushes the Number 5.
C32_DictionaryFirst ==
    /\ line = FiveDupLine
       => ~aborted /\ stack = AfterDup(AfterFive(prev))
    /\ line = ViaWordLine
       => ~aborted /\ stack = AfterDup(prev)
    /\ (line = FiveDupLine /\ DefinedAs(wFive, <<(<<"7">>)>>) /\ DefinedAs(wDup, <<(<<"1">>)>>))
       => stack = prev \o <<(<<NumInt(7)>>), <<NumInt(1)>>>> /\ errs = <<>>

\* 5 dup  after both definitions has pushed 7 and 1
C32_Witness ==
    /\ line = FiveDupLine
    /\ DefinedAs(wFive, <<(<<"7">>)>>)
    /\ DefinedAs(wDup, <<(<<"1">>)>>)
    /\ prev = <<>>
    /\ stack = <<(<<NumInt(7)>>), <<NumInt(1)>>>>

\* no token of tokens begins with a colon
ColonFree(tokens) == \A k \in 1..Len(tokens) : tokens[k][1] # ":"
\* tokens with the body of each defined word written in place of its name
RECURSIVE Inlined(_, _)
Inlined(tokens, f) ==
    IF tokens = <<>> THEN <<>>
    ELSE (IF tokens[1] \in DOMAIN f THEN f[tokens[1]] ELSE <<tokens[1]>>)
         \o Inlined(Tail(tokens), f)
\* the line defines nothing, names a defined word, and the bodies of the
\* words it names hold no token beginning with a colon
InvokesPlainWords ==
    /\ ColonFree(LineTokens)
    /\ \E k \in 1..Len(LineTokens) : LineTokens[k] \in DOMAIN functions
    /\ \A k \in 1..Len(LineTokens) :
           LineTokens[k] \in DOMAIN functions => ColonFree(functions[LineTokens[k]])
\* 1 show
OneShowLine == <<"1", " ", "s", "h", "o", "w">>
wShow == <<"s", "h", "o", "w">>

\* C33: a line naming words whose bodies hold no token beginning with a colon
\* leaves the stack, the Dictionary and the outputs that the same line leaves
\* with each name replaced by the body's tokens; if one never returns, so
\* does the other.
C33_InvocationIsInlining ==
    /\ InvokesPlainWords
       => \E g \in Garbage, die \in BOOLEAN :
              \E r \in {evaluate(Inlined(LineTokens, functions),
                                 [g |-> g, die |-> die], Members(prev, functions))} :
                  /\ ~r.wide
                  /\ aborted = r.thrown
                  /\ endless = r.endless
                  /\ ~endless => /\ stack = r.s
                                 /\ functions = r.f
                                 /\ out = r.out
                                 /\ errs = r.errs
    /\ (line = OneShowLine /\ DefinedAs(wShow, <<wDup, wDot, wPlus>>))
       => /\ out = <<(<<NumInt(1)>>)>>
          /\ prev = <<>> => stack = <<(<<NumInt(1)>>)>> /\ Len(errs) = 1
          /\ (Len(prev) = 1 /\ Top(prev) = <<NumInt(1)>>)
             => stack = <<(<<NumInt(2)>>)>> /\ errs = <<>>

\* 2 3 twice  with  twice = show 1 show  and  show = dup . +
C33_Witness ==
    /\ InvokesPlainWords
    /\ LineTokens = <<(<<"2">>), <<"3">>, <<"t", "w", "i", "c", "e">>>>
    /\ prev = <<>>
    /\ out = <<(<<NumInt(3)>>), <<NumInt(1)>>>>
    /\ stack = <<(<<NumInt(6)>>)>>

\* the defined words named in the body of the word t
Calls(f, t) == {f[t][k] : k \in 1..Len(f[t])} \cap DOMAIN f
\* the words reached from those of S through bodies
RECURSIVE Reach(_, _)
Reach(f, S) ==
    LET N == S \cup UNION {Calls(f, t) : t \in S}
    IN  IF N = S THEN S ELSE Reach(f, N)
\* the defined words named on the line
LineWords == {LineTokens[k] : k \in 1..Len(LineTokens)} \cap DOMAIN functions
\* some word reached from the line names itself, directly or through others
ReachesCycle ==
    \E w \in Reach(functions, LineWords) : w \in Reach(functions, Calls(functions, w))
wR == <<"r">>

\* C34: a line that defines nothing returns whenever no word reached from
\* its tokens names itself directly or through other words, and never
\* returns when one does; a definition returns even when the body names the
\* word being defined.
C34_RecursionNeverReturns ==
    /\ ColonFree(LineTokens)
       => /\ ReachesCycle => aborted
          /\ ~ReachesCycle => ~endless
          /\ endless => ReachesCycle /\ aborted
    /\ WholeLineDefinition(LineTokens) => ~endless /\ ~aborted

\* the line  r  with  r = 1 r
C34_Witness ==
    /\ LineTokens = <<wR>>
    /\ DefinedAs(wR, <<(<<"1">>), wR>>)
    /\ ReachesCycle
    /\ endless
    /\ aborted

\* the built-ins that compute a result from their operands
Computing == ArithOps \cup {wReshape, wMatmul, wRange, wDim}

\* C35: a call of a binary operator, reshape, matmul, range or dim that had
\* its operands and ended with no result pushed has printed exactly one
\* error line.
C35_NoSilentFailure ==
    (/\ lastTok \in Computing
     /\ Len(prev) >= Need(lastTok)
     /\ ~aborted
     /\ stack = Pop(prev, Need(lastTok)))
    => Len(errs) = 1

\* the brackets open after the character at i, a ] that closes nothing
\* counting for nothing
RECURSIVE OpenBrackets(_, _)
OpenBrackets(t, i) ==
    IF i = 0 THEN 0
    ELSE LET d == OpenBrackets(t, i - 1)
         IN  IF Bare(t, i) /\ t[i] = "[" THEN d + 1
             ELSE IF Bare(t, i) /\ t[i] = "]" /\ d > 0 THEN d - 1
             ELSE d
\* the whitespace outside every quotation and every open bracket pair
OuterBlanks(t) ==
    {i \in 1..Len(t) : Bare(t, i) /\ iswspace(t[i]) /\ OpenBrackets(t, i) = 0}
\* the characters of all tokens together
RECURSIVE TotalLen(_)
TotalLen(tokens) == IF tokens = <<>> THEN 0 ELSE Len(tokens[1]) + TotalLen(Tail(tokens))
\* ] 1 2
StrayCloseLine == <<"]", " ", "1", " ", "2">>

\* C36: on any line, whitespace outside every quotation and every open
\* bracket pair is in no token; ] 1 2 is three tokens.
C36_OuterBlankSeparates ==
    /\ Len(line) <= TokenLineLen
       => /\ TotalLen(LineTokens) + Cardinality(OuterBlanks(line)) <= Len(line)
          /\ \A k \in 1..Len(LineTokens) : OuterBlanks(LineTokens[k]) = {}
    /\ line = StrayCloseLine
       => /\ LineTokens = <<(<<"]">>), <<"1">>, <<"2">>>>
          /\ Len(stack) = Len(prev) + 3

\* all tokens written one after the other
RECURSIVE Concat(_)
Concat(tokens) == IF tokens = <<>> THEN <<>> ELSE tokens[1] \o Concat(Tail(tokens))
\* t without the characters at the positions in S
RECURSIVE Without(_, _, _)
Without(t, S, i) ==
    IF i > Len(t) THEN <<>>
    ELSE (IF i \in S THEN <<>> ELSE <<t[i]>>) \o Without(t, S, i + 1)
\* the whitespace at which tokenize's bracket count stands at 0 outside
\* quotations
Separators(t) == {i \in 1..Len(t) : Separator(t, i)}
\* [1 2
OpenBracketLine == <<"[", "1", " ", "2">>
\* "a b
OpenQuoteLine == <<"\"", "a", " ", "b">>

\* C37: no token is empty, and the tokens written one after the other are the
\* line without its separating whitespace; what follows an unterminated
\* quote or bracket is one last token, and no error is reported for it.
C37_TokenizeKeepsText ==
    /\ \A k \in 1..Len(LineTokens) : LineTokens[k] # <<>>
    /\ Len(line) <= TokenLineLen
       => Concat(LineTokens) = Without(line, Separators(line), 1)
    /\ line \in {OpenBracketLine, OpenQuoteLine}
       => /\ LineTokens = <<line>>
          /\ ~aborted
          /\ errs = <<>>
          /\ stack = Append(prev, <<Str(line)>>)

\* [1 2  pushed as one Text
C37_Witness ==
    /\ line = OpenBracketLine
    /\ LineTokens = <<line>>
    /\ Len(prev) = 1
    /\ stack = Append(prev, <<Str(line)>>)
    /\ errs = <<>>

\* 8 :w 1 2
OpenDefinitionLine == <<"8", " ", ":", "w", " ", "1", " ", "2">>
\* 3 4
ThreeFourLine == <<"3", " ", "4">>
\* 9 :end
NineEndLine == <<"9", " ">> \o tEnd

\* C38: a definition left open at the end of its line commits nothing and its
\* body leaves the stack alone; the next line is evaluated outside
\* definition mode, and a later :end commits nothing either.
C38_DefinitionModeEndsWithLine ==
    /\ script = PendingScript => functions = EmptyDict
    /\ line = OpenDefinitionLine
       => ~aborted /\ errs = <<>> /\ stack = Append(prev, <<NumInt(8)>>)
    /\ line = ThreeFourLine
       => ~aborted /\ errs = <<>> /\ stack = prev \o <<(<<NumInt(3)>>), <<NumInt(4)>>>>
    /\ line = tEnd
       => ~aborted /\ stack = prev /\ errs = <<"Invalid function definition">>
    /\ line = NineEndLine
       => /\ ~aborted
          /\ stack = Append(prev, <<NumInt(9)>>)
          /\ errs = <<"Invalid function definition">>

\* :end  on the line after  8 :w 1 2
C38_Witness ==
    /\ script = PendingScript
    /\ line = tEnd
    /\ nLines = 2
    /\ prev = <<(<<NumInt(8)>>)>>
    /\ stack = prev
    /\ functions = EmptyDict

wEnd == <<"e", "n", "d">>
wDump == <<"d", "u", "m", "p">>
\* name may be a key of the Dictionary
ProperKey(name) ==
    /\ name # <<>>
    /\ \A k \in 1..Len(name) :
           iswalnum(name[k]) \/ name[k] = "_" \/ name[k] \in NonAscii
    /\ name \notin {wEnd, wDump}
\* :end x :end
EndHeaderLine == tEnd \o <<" ", "x", " ">> \o tEnd

\* C39: every key of the Dictionary is non-empty, made of alphanumeric
\* characters, underscores and non-ASCII characters, and is neither end nor
\* dump; a :end met outside a definition binds nothing.
C39_DictionaryKeys ==
    /\ \A name \in DOMAIN functions : ProperKey(name)
    /\ line = EndHeaderLine => wEnd \notin DOMAIN functions

====
